---- MODULE Spec2Model ----
(***************************************************************************)
(* Sandbox provider selection, BoxLite availability caching and provider   *)
(* exec/runScript of the workany sandbox module.                           *)
(*                                                                         *)
(* JavaScript runs one synchronous segment at a time; every action below   *)
(* is the code between two suspension points (await) of one async call.    *)
(***************************************************************************)
EXTENDS Integers, FiniteSets, Sequences, TLC

\* ------------------------------------------------------------------------
\* Bounds
\* ------------------------------------------------------------------------
\* total number of calls (selections and direct availability checks) started
MaxCalls == 2

\* total number of exec/runScript calls started on the provider instances
MaxOps == 2

\* largest configured maximum pool size
MaxPoolSize == 2

\* the logical callers that may have one async call in flight each
Procs == {"p1", "p2"}

\* ------------------------------------------------------------------------
\* State
\* ------------------------------------------------------------------------
VARIABLES
  devSignals,             \* process environment: the development signals present
  initialized,            \* initSandbox: let initialized
  plugins,                \* registry: provider type -> registered plugin
  singletons,             \* registry: types with a cached getInstance() instance
  SimpleBox,              \* boxlite.ts module variable
  boxliteModuleLoaded,    \* boxlite.ts module variable
  boxliteRuntimeVerified, \* boxlite.ts module variable
  boxliteRuntimeError,    \* boxlite.ts module variable ("null" or a message)
  sel,                    \* per caller: frame of getBestProviderWithInfo
  av,                     \* per caller: frame of the isAvailable()/init() awaited
  result,                 \* per caller: outcome of its last completed selection
  probeCount,             \* history: runtime probes started
  overlapped,             \* history: two BoxLite availability checks were in flight together
  firstAvail,             \* history: first value a BoxLite isAvailable() resolved to
  lastAvail,              \* history: latest value a BoxLite isAvailable() resolved to
  resolvedCount,          \* history: BoxLite isAvailable() calls resolved so far
  callsStarted,           \* history: calls started so far
  box,                    \* BoxLiteProvider.box: "null", or the state of the box it refers to
  currentImage,           \* BoxLiteProvider.currentImage
  codexInstalled,         \* host: getCodexPath() finds a codex executable
  codexPath,              \* CodexProvider.codexPath
  xop,                    \* the exec/runScript call in flight on a provider
  proc,                   \* the child process spawned by the CodexProvider call in flight
  xres,                   \* outcome of the last completed exec/runScript call
  opsStarted,             \* history: exec/runScript calls started so far
  lastInit,               \* outcome of the last init() call on a provider
  boxLog,                 \* history: the boxes a BoxLiteProvider created, stopped, still holds
  volumes,                \* BoxLiteProvider: this.volumes
  boxVolumes,             \* history: the mounts the box in this.box was constructed with
  callerVolumes,          \* history: the mounts of the latest setVolumes call by the caller
  stopRec,                \* the stop()/shutdown() calls made in a row on a provider
  lastRegistered,         \* history: per type, the plugin of the latest register call
  lastCustom,             \* history: per type, the plugin of the latest registerSandboxPlugin call
  lastDefine,             \* outcome of the plugin definition / registration just made
  lastCreate,             \* outcome of the registry.create(type) just made
  lastAvailable,          \* outcome of the GET /providers/sandbox/available just served
  poolMaxSize,            \* pool configuration: maximum number of entries of the type
  entries,                \* pool: slot -> pooled entry
  caller,                 \* pool: per caller, its acquire() call and what it holds
  lastSweep,              \* history: the entries the latest idle sweep evicted, as it found them
  built,                  \* history: native provider instances constructed by getInstance
  got,                    \* per caller: the instance its latest getInstance('native') gave it (0: none)
  sb,                     \* the execInSandbox / runScriptInSandbox call in flight
  sbOut,                  \* what the execInSandbox / runScriptInSandbox call just made returned
  sbCalls,                \* history: execInSandbox / runScriptInSandbox calls started
  orphans,                \* history: running VM boxes whose provider instance nothing refers to
  detected,               \* the runtimes the providers just detected for one script path
  lastFactory,            \* outcome of the plugin factory call just made
  sy,                     \* the file sync of the BoxLiteProvider.runScript call in flight
  syOut,                  \* what that runScript call returned
  mgrSandbox,             \* provider manager: the type of the active sandbox provider
  cfgSandbox,             \* config loader: settings.sandboxProvider
  lastReq                 \* the provider-switching request just answered

instVars == <<built, got>>

selVars == <<devSignals, initialized, plugins, singletons, SimpleBox,
             boxliteModuleLoaded, boxliteRuntimeVerified, boxliteRuntimeError,
             sel, av, result, probeCount, overlapped, firstAvail, lastAvail,
             resolvedCount, callsStarted, lastRegistered, lastCustom,
             instVars>>

lifeVars == <<lastInit, stopRec>>

boxVars == <<boxLog, volumes, boxVolumes, callerVolumes>>

execVars == <<box, currentImage, codexInstalled, codexPath, xop, proc, xres, opsStarted,
              lifeVars, boxVars>>

regObs == <<lastDefine, lastCreate, lastAvailable>>

poolVars == <<poolMaxSize, entries, caller, lastSweep>>

sbVars == <<sb, sbOut, sbCalls, orphans, detected, lastFactory>>

auxVars == <<sy, syOut>>

apiVars == <<mgrSandbox, cfgSandbox, lastReq>>

extVars == <<regObs, poolVars, sbVars, auxVars, apiVars>>

vars == <<selVars, execVars, extVars>>

\* ------------------------------------------------------------------------
\* Environment and registry
\* ------------------------------------------------------------------------
\* the four signals isDevMode() looks at
DevSignalNames == {"NODE_ENV", "execArgv", "title", "argv1"}

ProviderTypes == {"boxlite", "native", "codex", "claude"}

\* builtinPlugins: native, codex, claude (boxlitePlugin is not in the list)
builtinPlugins == {"native", "codex", "claude"}

\* isDevMode(): any of the four signals
isDevMode_noTitle == \/ "NODE_ENV" \in devSignals
                     \/ "execArgv" \in devSignals
                     \/ "argv1" \in devSignals

isDevMode == \/ "NODE_ENV" \in devSignals
             \/ "execArgv" \in devSignals
             \/ "title" \in devSignals
             \/ "argv1" \in devSignals

\* registerBuiltinProviders(): registry.register(plugin) for each built-in
registerBuiltinProviders_keepExisting(pl) ==
  [t \in ProviderTypes |-> IF t \in builtinPlugins /\ pl[t] = "none" THEN "builtin" ELSE pl[t]]

registerBuiltinProviders(pl) ==
  [t \in ProviderTypes |-> IF t \in builtinPlugins THEN "builtin" ELSE pl[t]]

\* registry.register(plugin): last write wins
registryRegister(pl, t, id) == [pl EXCEPT ![t] = id]

\* history of registerBuiltinProviders(): the built-ins are the latest
\* plugins passed to registry.register for their types
AfterBuiltins(lr) ==
  [t \in ProviderTypes |-> IF t \in builtinPlugins THEN "builtin" ELSE lr[t]]

\* initSandbox(): registers the built-ins once
initSandboxPlugins == IF initialized THEN plugins ELSE registerBuiltinProviders(plugins)

\* ------------------------------------------------------------------------
\* Frames
\* ------------------------------------------------------------------------
\* created: registry.create('boxlite') "no" (not called), "yes", "threw"
\* availSaw: what the awaited isAvailable() did: "none", "true", "false", "threw"
\* initSaw: what the awaited init() did: "none", "ok", "threw"
\* boxCalls: boxlite create/isAvailable/init calls made by this selection
\* failed: the candidates that failed in this selection
IdleSel == [pc |-> "idle", boxPlugin |-> "none", created |-> "no",
            availSaw |-> "none", initSaw |-> "none", boxCalls |-> 0,
            failed |-> {}]

NoAv == [pc |-> "none", kind |-> "isAvailable", owner |-> "none",
         val |-> FALSE, exit0 |-> FALSE, testBox |-> "none"]

NoResult == [kind |-> "none", provider |-> "null", usedFallback |-> FALSE,
             fallbackReason |-> "", errReasons |-> {}, dev |-> FALSE,
             boxPlugin |-> "none", created |-> "no", availSaw |-> "none",
             initSaw |-> "none", nativeSaw |-> "none", boxCalls |-> 0,
             failed |-> {}]

\* a BoxLite availability check of caller q is between its call and its resolution
InFlight(q) == av[q].pc \in {"load", "import", "probeExec", "probeStop"}

\* the frame of a fresh isAvailable()/init() call on a provider of plugin pl
NewAv(pl, kind, owner) ==
  [pc |-> IF pl = "boxlitePlugin" THEN "load" ELSE "custom",
   kind |-> kind, owner |-> owner, val |-> FALSE, exit0 |-> FALSE, testBox |-> "none"]

\* history update when caller p starts an availability check on plugin pl
StartOverlap(p, pl) ==
  overlapped' = (overlapped \/ (pl = "boxlitePlugin" /\ \E q \in Procs \ {p} : InFlight(q)))

\* a BoxLiteProvider and a CodexProvider fresh from their factories
\* timeout: options.timeout was given; cmd: whether the command ends on its own;
\* pkgs: options.packages is non-empty; installed: the package installation ran
NoOp == [name |-> "none", prov |-> "none", pc |-> "none", image |-> "none",
         pkgs |-> FALSE, installed |-> FALSE, runtime |-> "none", causes |-> {},
         exitCode |-> "none", stderr |-> {}, timeout |-> FALSE, cmd |-> "none"]

NoProc == [state |-> "none", stderr |-> {}, timer |-> "none", lateFire |-> FALSE]

NoXres == [prov |-> "none", op |-> "none", threw |-> FALSE, exitCode |-> "none",
           stderr |-> {}, causes |-> {}]

\* no init() and no stop() made yet
NoInit == [prov |-> "none", available |-> FALSE, threw |-> FALSE]

\* calls: stop()/shutdown() calls made in a row (2 stands for two or more);
\* released: box stops invoked by the latest of them; prior: by the earlier ones
NoStops == [prov |-> "none", calls |-> 0, released |-> 0, prior |-> 0, threw |-> FALSE]

\* no plugin object
NoPlugin == [type |-> "", name |-> "", factory |-> "none"]

\* the latest registry call was not a definition / a create / a listing
NoDefine == [plugin |-> NoPlugin, defined |-> FALSE, threw |-> FALSE, stage |-> "none",
             returned |-> NoPlugin, registered |-> FALSE]

NoCreate == [type |-> "none", threw |-> FALSE, factory |-> "none", newest |-> "none"]

NoAvailable == [status |-> 0, checked |-> [t \in ProviderTypes |-> "false"],
                registered |-> {}, available |-> {}]

\* no call through execInSandbox / runScriptInSandbox yet
NoSb == [pc |-> "idle", op |-> "none", prov |-> "none"]

NoAnnotation == [type |-> "none", name |-> "none", isolation |-> "none"]

NoSbResult == [stdout |-> {}, stderr |-> {}, exitCode |-> "none", duration |-> 0,
               provider |-> NoAnnotation]

NoSbOut == [op |-> "none", prov |-> "none", threw |-> FALSE,
            inner |-> NoSbResult, outer |-> NoSbResult]

NoDetected == [path |-> <<>>, boxlite |-> "none", codex |-> "none", base |-> "none"]

NoFactory == [prov |-> "none", config |-> "none", initStarted |-> FALSE]

\* no runScript call has reached its file sync
NoScriptResult == [stdout |-> {}, stderr |-> {}, exitCode |-> "none"]

NoSy == [pc |-> "none", vm |-> {}, script |-> <<>>, result |-> NoScriptResult,
         listed |-> {}, todo |-> {}, synced |-> {}, failed |-> {}, listFailed |-> FALSE,
         threw |-> FALSE]

NoSyOut == [returned |-> FALSE, threw |-> FALSE, value |-> NoScriptResult,
            result |-> NoScriptResult, vm |-> {}, script |-> <<>>, listed |-> {},
            synced |-> {}, failed |-> {}, listFailed |-> FALSE]

AuxInit ==
  /\ sy = NoSy
  /\ syOut = NoSyOut

\* the configured provider is active; no switch or sync request answered yet
ApiInit ==
  /\ mgrSandbox = "native"
  /\ cfgSandbox = "native"
  /\ lastReq = [route |-> "none", type |-> "none", status |-> 0,
                preMgr |-> "none", preCfg |-> "none"]

SbInit ==
  /\ sb = NoSb
  /\ sbOut = NoSbOut
  /\ sbCalls = 0
  /\ orphans = 0
  /\ detected = NoDetected
  /\ lastFactory = NoFactory

ExtInit ==
  /\ SbInit
  /\ AuxInit
  /\ ApiInit
  /\ lastRegistered = [t \in ProviderTypes |-> "none"]
  /\ lastCustom = [t \in ProviderTypes |-> "none"]
  /\ built = 0
  /\ got = [p \in Procs |-> 0]
  /\ lastDefine = NoDefine
  /\ lastCreate = NoCreate
  /\ lastAvailable = NoAvailable

\* the callers of the pool, and the slots of its entry table
PoolCallers == {"c1", "c2", "c3"}

PoolSlots == 1 .. (MaxPoolSize + 1)

NoEntry == [state |-> "absent", holder |-> "none", old |-> FALSE, stopped |-> FALSE]

NoCaller == [pc |-> "idle", entry |-> 0, via |-> "none", error |-> "none",
             armed |-> FALSE, timedOut |-> FALSE]

\* an empty pool that nobody uses
PoolEmpty ==
  /\ entries = [e \in PoolSlots |-> NoEntry]
  /\ caller = [c \in PoolCallers |-> NoCaller]
  /\ lastSweep = {}

\* created: boxes constructed; live: constructed and not stopped; pending:
\* constructed and stop() not yet called on them; tried: stop() has been
\* called on the box in this.box
NoBoxes == [created |-> 0, live |-> 0, pending |-> 0, tried |-> FALSE]

ExecInit ==
  /\ boxLog = NoBoxes
  /\ volumes = "none"
  /\ boxVolumes = "none"
  /\ callerVolumes = "none"
  /\ lastInit = NoInit
  /\ stopRec = NoStops
  /\ box = "null"
  /\ currentImage = "node:18-alpine"
  /\ codexInstalled \in BOOLEAN
  /\ codexPath = "undefined"
  /\ xop = NoOp
  /\ proc = NoProc
  /\ xres = NoXres
  /\ opsStarted = 0

Init ==
  /\ ExecInit
  /\ ExtInit
  /\ poolMaxSize = MaxPoolSize
  /\ PoolEmpty
  /\ codexInstalled
  /\ devSignals \in {S \in SUBSET DevSignalNames : Cardinality(S) <= 1}
  /\ initialized = FALSE
  /\ plugins = [t \in ProviderTypes |-> "none"]
  /\ singletons = {}
  /\ SimpleBox = "null"
  /\ boxliteModuleLoaded = FALSE
  /\ boxliteRuntimeVerified = FALSE
  /\ boxliteRuntimeError = "null"
  /\ sel = [p \in Procs |-> IdleSel]
  /\ av = [p \in Procs |-> NoAv]
  /\ result = [p \in Procs |-> NoResult]
  /\ probeCount = 0
  /\ overlapped = FALSE
  /\ firstAvail = "none"
  /\ lastAvail = "none"
  /\ resolvedCount = 0
  /\ callsStarted = 0

moduleVars == <<SimpleBox, boxliteModuleLoaded, boxliteRuntimeVerified, boxliteRuntimeError>>
registryVars == <<initialized, plugins, singletons>>
availHistory == <<firstAvail, lastAvail, resolvedCount>>

\* ------------------------------------------------------------------------
\* BoxLite availability: loadBoxLite = loadBoxLiteModule + verifyBoxLiteRuntime
\* ------------------------------------------------------------------------
\* verifyBoxLiteRuntime, cached branch: return boxliteRuntimeError === null
cachedVerification(err) == err = "null"

\* verifyBoxLiteRuntime, catch block: the failure is stored
verifyCatch_notCached(msg) == [verified |-> FALSE, error |-> msg]

verifyCatch(msg) == [verified |-> TRUE, error |-> msg]

\* BoxLiteProvider.init: throws when isAvailable() resolved false
\* the awaited promise of caller p settles: isAvailable() resolves v,
\* init() resolves when v and rejects otherwise
Resolve(p, v) ==
  /\ av' = [av EXCEPT ![p].pc = IF av[p].kind = "init" /\ ~v THEN "threw" ELSE "ret",
                      ![p].val = v]
  /\ firstAvail' = IF firstAvail = "none" THEN (IF v THEN "true" ELSE "false") ELSE firstAvail
  /\ lastAvail' = IF v THEN "true" ELSE "false"
  /\ resolvedCount' = resolvedCount + 1

\* verifyBoxLiteRuntime up to its first await, entered with the module state
\* (loaded, ctor) that loadBoxLiteModule left
VerifyEntry(p, loaded, ctor) ==
  IF boxliteRuntimeVerified
  THEN /\ Resolve(p, cachedVerification(boxliteRuntimeError))
       /\ UNCHANGED <<boxliteRuntimeVerified, boxliteRuntimeError, probeCount>>
  ELSE IF ~loaded \/ ctor = "null"
  THEN /\ boxliteRuntimeVerified' = TRUE
       /\ boxliteRuntimeError' = "BoxLite module not loaded"
       /\ Resolve(p, FALSE)
       /\ UNCHANGED probeCount
  ELSE \E ctorOk \in BOOLEAN :
         /\ probeCount' = probeCount + 1
         /\ IF ctorOk
            THEN /\ av' = [av EXCEPT ![p].pc = "probeExec", ![p].testBox = "created"]
                 /\ UNCHANGED <<boxliteRuntimeVerified, boxliteRuntimeError, availHistory>>
            ELSE /\ boxliteRuntimeVerified' = verifyCatch("ctor").verified
                 /\ boxliteRuntimeError' = verifyCatch("ctor").error
                 /\ Resolve(p, FALSE)

\* loadBoxLite: loadBoxLiteModule (cached flag, else loadNativeModuleDirect),
\* then verifyBoxLiteRuntime, or suspension at await import('@boxlite-ai/boxlite')
AvLoad(p) ==
  /\ av[p].pc = "load"
  /\ IF boxliteModuleLoaded
     THEN /\ VerifyEntry(p, TRUE, SimpleBox)
          /\ UNCHANGED <<SimpleBox, boxliteModuleLoaded>>
     ELSE \E direct \in BOOLEAN :
            IF direct
            THEN /\ SimpleBox' = "SimpleBoxDirect"
                 /\ boxliteModuleLoaded' = TRUE
                 /\ VerifyEntry(p, TRUE, "SimpleBoxDirect")
            ELSE /\ av' = [av EXCEPT ![p].pc = "import"]
                 /\ UNCHANGED <<moduleVars, probeCount, availHistory>>
  /\ UNCHANGED execVars
  /\ UNCHANGED extVars
  /\ UNCHANGED <<lastRegistered, lastCustom>>
  /\ UNCHANGED instVars
  /\ UNCHANGED <<devSignals, registryVars, sel, result, overlapped, callsStarted>>

\* loadBoxLiteModule after await import(): the package loaded, or the catch
\* returns false (nothing is stored about the failure)
AvImport(p) ==
  /\ av[p].pc = "import"
  /\ \E ok \in BOOLEAN :
       IF ok
       THEN /\ SimpleBox' = "npm"
            /\ boxliteModuleLoaded' = TRUE
            /\ VerifyEntry(p, TRUE, "npm")
       ELSE /\ Resolve(p, FALSE)
            /\ UNCHANGED <<moduleVars, probeCount>>
  /\ UNCHANGED execVars
  /\ UNCHANGED extVars
  /\ UNCHANGED <<lastRegistered, lastCustom>>
  /\ UNCHANGED instVars
  /\ UNCHANGED <<devSignals, registryVars, sel, result, overlapped, callsStarted>>

\* verifyBoxLiteRuntime after await testBox.exec('echo', 'test')
AvProbeExec(p) ==
  /\ av[p].pc = "probeExec"
  /\ \E out \in {"exit0", "nonzero", "throws"} :
       IF out = "throws"
       THEN /\ boxliteRuntimeVerified' = verifyCatch("exec").verified
            /\ boxliteRuntimeError' = verifyCatch("exec").error
            /\ Resolve(p, FALSE)
       ELSE /\ av' = [av EXCEPT ![p].pc = "probeStop", ![p].exit0 = (out = "exit0"),
                                 ![p].testBox = "stopCalled"]
            /\ UNCHANGED <<boxliteRuntimeVerified, boxliteRuntimeError, availHistory>>
  /\ UNCHANGED execVars
  /\ UNCHANGED extVars
  /\ UNCHANGED <<lastRegistered, lastCustom>>
  /\ UNCHANGED instVars
  /\ UNCHANGED <<devSignals, registryVars, SimpleBox, boxliteModuleLoaded, sel,
                 result, probeCount, overlapped, callsStarted>>

\* verifyBoxLiteRuntime after await testBox.stop()
AvProbeStop(p) ==
  /\ av[p].pc = "probeStop"
  /\ \E stopOk \in BOOLEAN :
       IF stopOk /\ av[p].exit0
       THEN /\ boxliteRuntimeVerified' = TRUE
            /\ boxliteRuntimeError' = "null"
            /\ Resolve(p, TRUE)
       ELSE /\ boxliteRuntimeVerified' = verifyCatch("failed").verified
            /\ boxliteRuntimeError' = verifyCatch("failed").error
            /\ Resolve(p, FALSE)
  /\ UNCHANGED execVars
  /\ UNCHANGED extVars
  /\ UNCHANGED <<lastRegistered, lastCustom>>
  /\ UNCHANGED instVars
  /\ UNCHANGED <<devSignals, registryVars, SimpleBox, boxliteModuleLoaded, sel,
                 result, probeCount, overlapped, callsStarted>>

\* isAvailable()/init() of a provider made by a user-registered plugin
CustomResolve(p) ==
  /\ av[p].pc = "custom"
  /\ \E out \in (IF av[p].kind = "init" THEN {"true", "threw"}
                                       ELSE {"true", "false", "threw"}) :
       av' = [av EXCEPT ![p].pc = IF out = "threw" THEN "threw" ELSE "ret",
                        ![p].val = (out = "true")]
  /\ UNCHANGED execVars
  /\ UNCHANGED extVars
  /\ UNCHANGED <<lastRegistered, lastCustom>>
  /\ UNCHANGED instVars
  /\ UNCHANGED <<devSignals, registryVars, moduleVars, sel, result, probeCount,
                 overlapped, availHistory, callsStarted>>

\* isBoxLiteAvailable(): a direct availability check outside any selection
IsAvailStart(p) ==
  /\ sel[p].pc = "idle"
  /\ av[p].pc = "none"
  /\ callsStarted < MaxCalls
  /\ callsStarted' = callsStarted + 1
  /\ av' = [av EXCEPT ![p] = NewAv("boxlitePlugin", "isAvailable", "direct")]
  /\ StartOverlap(p, "boxlitePlugin")
  /\ UNCHANGED execVars
  /\ UNCHANGED extVars
  /\ UNCHANGED <<lastRegistered, lastCustom>>
  /\ UNCHANGED instVars
  /\ UNCHANGED <<devSignals, registryVars, moduleVars, sel, result, probeCount,
                 availHistory>>

IsAvailDone(p) ==
  /\ av[p].owner = "direct"
  /\ av[p].pc = "ret"
  /\ av' = [av EXCEPT ![p] = NoAv]
  /\ UNCHANGED execVars
  /\ UNCHANGED extVars
  /\ UNCHANGED <<lastRegistered, lastCustom>>
  /\ UNCHANGED instVars
  /\ UNCHANGED <<devSignals, registryVars, moduleVars, sel, result, probeCount,
                 overlapped, availHistory, callsStarted>>

\* ------------------------------------------------------------------------
\* Selection: getBestProviderWithInfo
\* ------------------------------------------------------------------------
\* return { provider: boxliteProvider, usedFallback: false }
BoxliteResult_fallback ==
  [kind |-> "ok", provider |-> "boxlite", usedFallback |-> TRUE,
   fallbackReason |-> "", errReasons |-> {}]

BoxliteResult ==
  [kind |-> "ok", provider |-> "boxlite", usedFallback |-> FALSE,
   fallbackReason |-> "", errReasons |-> {}]

\* return { provider: nativeProvider, usedFallback: true, fallbackReason } (normal mode)
NativeFallbackResult_silent ==
  [kind |-> "ok", provider |-> "native", usedFallback |-> FALSE,
   fallbackReason |-> "", errReasons |-> {}]

NativeFallbackResult ==
  [kind |-> "ok", provider |-> "native", usedFallback |-> TRUE,
   fallbackReason |-> "BoxLite VM unavailable, using native execution",
   errReasons |-> {}]

\* return { provider: nativeProvider, usedFallback: true, fallbackReason } (dev mode)
DevResult_noReason ==
  [kind |-> "ok", provider |-> "native", usedFallback |-> TRUE,
   fallbackReason |-> "", errReasons |-> {}]

DevResult ==
  [kind |-> "ok", provider |-> "native", usedFallback |-> TRUE,
   fallbackReason |-> "development mode uses native execution",
   errReasons |-> {}]

\* throw new Error(<fixed message>): the failures collected on the way (f)
\* are not put into the error
SelectionFailure_nullProvider(f) ==
  [kind |-> "ok", provider |-> "null", usedFallback |-> TRUE,
   fallbackReason |-> "", errReasons |-> {}]

SelectionFailure(f) ==
  [kind |-> "error", provider |-> "null", usedFallback |-> FALSE,
   fallbackReason |-> "", errReasons |-> {}]

\* try { await boxliteProvider.init(); return ... } catch: init counts as
\* done only when the awaited promise resolved
initSucceeded_ignored(a) == TRUE

initSucceeded(a) == a.pc = "ret"

\* the outcome record of a completed selection: what was returned or thrown
\* (core) together with what the call did (frame f, native attempt n)
Outcome(core, f, n) ==
  [kind |-> core.kind, provider |-> core.provider,
   usedFallback |-> core.usedFallback, fallbackReason |-> core.fallbackReason,
   errReasons |-> core.errReasons, dev |-> (devSignals # {}),
   boxPlugin |-> f.boxPlugin, created |-> f.created, availSaw |-> f.availSaw,
   initSaw |-> f.initSaw, nativeSaw |-> n, boxCalls |-> f.boxCalls,
   failed |-> f.failed]

\* getBestProviderWithInfo up to its first real suspension: initSandbox(),
\* isDevMode(), registry.create('boxlite'), boxliteProvider.isAvailable()
SelectStart(p) ==
  /\ sel[p].pc = "idle"
  /\ av[p].pc = "none"
  /\ callsStarted < MaxCalls
  /\ callsStarted' = callsStarted + 1
  /\ initialized' = TRUE
  /\ plugins' = initSandboxPlugins
  /\ LET pl == initSandboxPlugins["boxlite"] IN
     IF isDevMode
     THEN /\ sel' = [sel EXCEPT ![p] = [IdleSel EXCEPT !.pc = "devNative"]]
          /\ UNCHANGED <<av, overlapped>>
     ELSE IF pl = "none"
     THEN /\ sel' = [sel EXCEPT ![p] = [IdleSel EXCEPT !.pc = "native",
                                           !.created = "threw", !.boxCalls = 1,
                                           !.failed = {"boxlite"}]]
          /\ UNCHANGED <<av, overlapped>>
     ELSE /\ sel' = [sel EXCEPT ![p] = [IdleSel EXCEPT !.pc = "avail",
                                           !.boxPlugin = pl, !.created = "yes",
                                           !.boxCalls = 2]]
          /\ av' = [av EXCEPT ![p] = NewAv(pl, "isAvailable", "select")]
          /\ StartOverlap(p, pl)
  /\ UNCHANGED execVars
  /\ UNCHANGED extVars
  /\ lastRegistered' = IF initialized THEN lastRegistered ELSE AfterBuiltins(lastRegistered)
  /\ UNCHANGED lastCustom
  /\ got' = [got EXCEPT ![p] = 0]
  /\ UNCHANGED built
  /\ UNCHANGED <<devSignals, singletons, moduleVars, result, probeCount, availHistory>>

\* after await boxliteProvider.isAvailable(): init() is called, or the
\* else branch / catch block falls through to the native fallback
SelAfterAvail(p) ==
  /\ sel[p].pc = "avail"
  /\ av[p].pc \in {"ret", "threw"}
  /\ IF av[p].pc = "ret" /\ av[p].val
     THEN /\ sel' = [sel EXCEPT ![p].pc = "init", ![p].availSaw = "true",
                                ![p].boxCalls = @ + 1]
          /\ av' = [av EXCEPT ![p] = NewAv(sel[p].boxPlugin, "init", "select")]
          /\ StartOverlap(p, sel[p].boxPlugin)
     ELSE /\ sel' = [sel EXCEPT ![p].pc = "native",
                                ![p].availSaw = IF av[p].pc = "threw" THEN "threw" ELSE "false",
                                ![p].failed = @ \cup {"boxlite"}]
          /\ av' = [av EXCEPT ![p] = NoAv]
          /\ UNCHANGED overlapped
  /\ UNCHANGED execVars
  /\ UNCHANGED extVars
  /\ UNCHANGED <<lastRegistered, lastCustom>>
  /\ UNCHANGED instVars
  /\ UNCHANGED <<devSignals, registryVars, moduleVars, result, probeCount,
                 availHistory, callsStarted>>

\* after await boxliteProvider.init(): return boxlite, or the catch block
\* falls through to the native fallback
SelAfterInit(p) ==
  /\ sel[p].pc = "init"
  /\ av[p].pc \in {"ret", "threw"}
  /\ LET f == [sel[p] EXCEPT !.initSaw = IF av[p].pc = "ret" THEN "ok" ELSE "threw"] IN
     IF initSucceeded(av[p])
     THEN /\ result' = [result EXCEPT ![p] = Outcome(BoxliteResult, f, "none")]
          /\ sel' = [sel EXCEPT ![p] = IdleSel]
     ELSE /\ sel' = [sel EXCEPT ![p] = [f EXCEPT !.pc = "native",
                                                 !.failed = @ \cup {"boxlite"}]]
          /\ UNCHANGED result
  /\ av' = [av EXCEPT ![p] = NoAv]
  /\ UNCHANGED execVars
  /\ UNCHANGED extVars
  /\ UNCHANGED <<lastRegistered, lastCustom>>
  /\ UNCHANGED instVars
  /\ UNCHANGED <<devSignals, registryVars, moduleVars, probeCount, overlapped,
                 availHistory, callsStarted>>

\* registry.getInstance('native'): the cached singleton, or a new instance
\* from the registered factory (which may fail)
getInstanceOk(t, constructOk) ==
  t \in singletons \/ (plugins[t] # "none" /\ constructOk)

\* registry.getInstance(type): a new instance is constructed only when the
\* singleton cache holds none for the type
constructsNew_always(t) == TRUE

constructsNew(t) == t \notin singletons

\* after await registry.getInstance('native'), in either mode
SelNative(p) ==
  /\ sel[p].pc \in {"native", "devNative"}
  /\ \E constructOk \in BOOLEAN :
       LET ok == getInstanceOk("native", constructOk)
           f == IF ok THEN sel[p] ELSE [sel[p] EXCEPT !.failed = @ \cup {"native"}]
           core == IF ~ok THEN SelectionFailure(f.failed)
                   ELSE IF sel[p].pc = "devNative" THEN DevResult
                   ELSE NativeFallbackResult
           made == IF ok /\ constructsNew("native") THEN built + 1 ELSE built
       IN /\ singletons' = IF ok THEN singletons \cup {"native"} ELSE singletons
          /\ built' = made
          /\ got' = [got EXCEPT ![p] = IF ok THEN made ELSE 0]
          /\ result' = [result EXCEPT ![p] = Outcome(core, f, IF ok THEN "ok" ELSE "threw")]
  /\ sel' = [sel EXCEPT ![p] = IdleSel]
  /\ UNCHANGED execVars
  /\ UNCHANGED extVars
  /\ UNCHANGED <<lastRegistered, lastCustom>>
  /\ UNCHANGED <<devSignals, initialized, plugins, moduleVars, av, probeCount,
                 overlapped, availHistory, callsStarted>>

\* registerSandboxPlugin(plugin): boxlitePlugin, or a user plugin that
\* overrides the boxlite or the native type
registerSandboxPlugin(t, id) ==
  /\ plugins[t] # id
  /\ plugins' = registryRegister(plugins, t, id)
  /\ UNCHANGED execVars
  /\ UNCHANGED extVars
  /\ lastRegistered' = [lastRegistered EXCEPT ![t] = id]
  /\ lastCustom' = [lastCustom EXCEPT ![t] = id]
  /\ UNCHANGED instVars
  /\ UNCHANGED <<devSignals, initialized, singletons, moduleVars, sel, av, result,
                 probeCount, overlapped, availHistory, callsStarted>>

Next ==
  \/ \E p \in Procs : SelectStart(p)
  \/ \E p \in Procs : SelAfterAvail(p)
  \/ \E p \in Procs : SelAfterInit(p)
  \/ \E p \in Procs : SelNative(p)
  \/ \E p \in Procs : AvLoad(p)
  \/ \E p \in Procs : AvImport(p)
  \/ \E p \in Procs : AvProbeExec(p)
  \/ \E p \in Procs : AvProbeStop(p)
  \/ \E p \in Procs : CustomResolve(p)
  \/ \E p \in Procs : IsAvailStart(p)
  \/ \E p \in Procs : IsAvailDone(p)
  \/ registerSandboxPlugin("boxlite", "boxlitePlugin")
  \/ \E t \in {"boxlite", "native"} : registerSandboxPlugin(t, "custom")

Spec == Init /\ [][Next]_vars

\* ------------------------------------------------------------------------
\* Properties of selection
\* ------------------------------------------------------------------------
Completed(r) == r.kind # "none"

\* C1's case: normal mode, the boxlite isAvailable() resolved false or threw,
\* and the native provider was obtained
C1_Case(r) ==
  Completed(r) /\ ~r.dev /\ r.availSaw \in {"false", "threw"} /\ r.nativeSaw = "ok"

\* C1: in normal mode, a selection in which boxlite's isAvailable() resolved
\* false or threw and native was obtained returns native with
\* usedFallback = true and a non-empty fallbackReason; two such selections
\* return the same provider type and flag.
C1_FallbackToNative ==
  /\ \A p \in Procs :
       C1_Case(result[p]) =>
         /\ result[p].kind = "ok"
         /\ result[p].provider = "native"
         /\ result[p].usedFallback
         /\ result[p].fallbackReason # ""
  /\ \A p, q \in Procs :
       C1_Case(result[p]) /\ C1_Case(result[q]) =>
         /\ result[p].provider = result[q].provider
         /\ result[p].usedFallback = result[q].usedFallback

C1_Witness ==
  /\ \A p \in Procs : C1_Case(result[p])
  /\ \E p \in Procs : result[p].boxPlugin = "boxlitePlugin" /\ result[p].availSaw = "false"

\* C2: in normal mode, a selection in which the boxlite candidate's
\* isAvailable() resolved true and its init() succeeded returns that boxlite
\* provider with usedFallback = false.
C2_BoxlitePreferred ==
  \A p \in Procs :
    (Completed(result[p]) /\ ~result[p].dev /\ initialized
       /\ result[p].availSaw = "true" /\ result[p].initSaw = "ok") =>
      /\ result[p].kind = "ok"
      /\ result[p].provider = "boxlite"
      /\ ~result[p].usedFallback

C2_Witness ==
  \E p \in Procs :
    /\ Completed(result[p]) /\ ~result[p].dev
    /\ result[p].boxPlugin = "boxlitePlugin"
    /\ result[p].availSaw = "true" /\ result[p].initSaw = "ok"

\* the boxlite candidate was tried in the selection and did not succeed
BoxliteTriedAndFailed(r) ==
  \/ r.created = "threw"
  \/ r.availSaw \in {"false", "threw"}
  \/ r.initSaw = "threw"

\* C3 as stated: a completed selection returns a non-null provider or fails,
\* and it fails only when boxlite and then native were both tried without
\* success.
C3_FailsOnlyWhenBothTried ==
  \A p \in Procs :
    Completed(result[p]) =>
      /\ result[p].kind \in {"ok", "error"}
      /\ result[p].kind = "ok" => result[p].provider \in {"boxlite", "native"}
      /\ result[p].kind = "error" =>
           BoxliteTriedAndFailed(result[p]) /\ result[p].nativeSaw = "threw"

\* C3 amended: a completed selection returns a non-null provider or fails;
\* it fails only when every candidate of its mode was tried without success:
\* boxlite then native in normal mode, native alone in development mode.
C3_FailsOnlyWhenExhausted ==
  \A p \in Procs :
    Completed(result[p]) =>
      /\ result[p].kind \in {"ok", "error"}
      /\ result[p].kind = "ok" => result[p].provider \in {"boxlite", "native"}
      /\ result[p].kind = "error" =>
           /\ result[p].nativeSaw = "threw"
           /\ result[p].dev \/ BoxliteTriedAndFailed(result[p])
           /\ result[p].dev => result[p].created = "no"

C3_Witness ==
  \E p, q \in Procs :
    /\ result[p].kind = "error" /\ result[p].nativeSaw = "threw"
    /\ result[q].kind = "ok" /\ result[q].provider = "native"

\* C4: when every candidate failed, the error raised carries the failure
\* reason of each candidate that was tried.
C4_ErrorCarriesReasons ==
  \A p \in Procs :
    result[p].kind = "error" => result[p].failed \subseteq result[p].errReasons

\* C5: in development mode a selection makes no boxlite create, isAvailable
\* or init call, and what it returns is the native provider with
\* usedFallback = true and a non-empty fallbackReason.
C5_DevModeSkipsBoxlite ==
  devSignals # {} =>
    \A p \in Procs :
      /\ sel[p].boxCalls = 0
      /\ av[p].owner # "select"
      /\ Completed(result[p]) =>
           /\ result[p].boxCalls = 0
           /\ result[p].created = "no"
           /\ result[p].nativeSaw = "ok" => result[p].kind = "ok"
           /\ result[p].kind = "ok" =>
                /\ result[p].provider = "native"
                /\ result[p].usedFallback
                /\ result[p].fallbackReason # ""

C5_Witness ==
  /\ devSignals # {}
  /\ \E p \in Procs : result[p].kind = "ok" /\ result[p].provider = "native"
  /\ \E q \in Procs : InFlight(q)

\* C6: in normal mode, when the candidate's isAvailable() resolved true but
\* its init() failed, the selection goes on to native: it never returns
\* boxlite, it fails only if native fails too, and with native obtained it
\* returns native with usedFallback = true.
C6_InitFailureFallsThrough ==
  \A p \in Procs :
    /\ sel[p].initSaw = "threw" => sel[p].pc = "native"
    /\ (Completed(result[p]) /\ result[p].initSaw = "threw") =>
         /\ result[p].availSaw = "true"
         /\ result[p].provider # "boxlite"
         /\ result[p].nativeSaw # "none"
         /\ result[p].kind = "error" => result[p].nativeSaw = "threw"
         /\ result[p].nativeSaw = "ok" =>
              /\ result[p].kind = "ok"
              /\ result[p].provider = "native"
              /\ result[p].usedFallback

C6_Witness ==
  \E p \in Procs :
    /\ result[p].initSaw = "threw"
    /\ result[p].kind = "ok" /\ result[p].provider = "native"

\* C7: when BoxLite isAvailable() calls are made one after another (no two
\* in flight together), the runtime probe is started at most once, whatever
\* its outcome.
C7_ProbeAtMostOnce ==
  ~overlapped => probeCount <= 1

C7_Witness ==
  /\ ~overlapped
  /\ probeCount = 1
  /\ resolvedCount >= 2
  /\ boxliteRuntimeVerified /\ boxliteRuntimeError # "null"

\* C8: once a BoxLite isAvailable() call has resolved to a value, every
\* later one resolves to the same value.
C8_AvailabilityPermanent ==
  firstAvail # "none" => lastAvail = firstAvail

\* ------------------------------------------------------------------------
\* Provider calls: BoxLiteProvider and CodexProvider exec / runScript
\* ------------------------------------------------------------------------
\* Strings are kept as the set of fragments they were built from ({} is '');
\* exit codes as "0", "1", "2", with "null"/"undefined" for a missing code.

\* JavaScript x || d on an exit code
orElse(x, d) == IF x \in {"0", "null", "undefined", ""} THEN d ELSE x

\* JavaScript s || d on a string
orElseStr(s, d) == IF s = {} THEN d ELSE s

\* what box.exec() may resolve to, and what a failing call may throw
\* (an Error, possibly carrying stderr/exitCode fields)
BoxResults == [stderr : {{}, {"out"}}, exitCode : {"0", "1"}]

ThrownErrors == {[stderr |-> {}, exitCode |-> "undefined"],
                 [stderr |-> {}, exitCode |-> "0"],
                 [stderr |-> {"out"}, exitCode |-> "2"]}

PlainError == [stderr |-> {}, exitCode |-> "undefined"]

\* BoxLiteProvider.exec, catch block
blCatchResult_zero(err) ==
  [stderr |-> orElseStr(err.stderr, {"errmsg"}), exitCode |-> orElse(err.exitCode, "0")]

blCatchResult(err) ==
  [stderr |-> orElseStr(err.stderr, {"errmsg"}), exitCode |-> orElse(err.exitCode, "1")]

\* BoxLiteProvider.exec / runScript, the returned object
blExecResult(res) ==
  [stderr |-> orElseStr(res.stderr, {}), exitCode |-> orElse(res.exitCode, "0")]

\* BoxLiteProvider.runScript: image and runtime from the extension
scriptImage(rt) ==
  CASE rt = "python" -> "python:3.11-slim"
    [] rt = "bun" -> "oven/bun:latest"
    [] OTHER -> "node:18-alpine"

\* the call in flight completes: it returned an ExecResult, or it threw
XFinish(prov, op, threw, code, err, causes) ==
  /\ xres' = [prov |-> prov, op |-> op, threw |-> threw, exitCode |-> code,
              stderr |-> err, causes |-> causes]
  /\ xop' = NoOp

\* an error is thrown inside call o of the BoxLiteProvider: exec catches it
\* and returns a result, runScript has no handler and rejects
BlFail(o, err, causes) ==
  IF o.name = "exec"
  THEN XFinish("boxlite", "exec", FALSE, blCatchResult(err).exitCode,
               blCatchResult(err).stderr, o.causes \cup causes)
  ELSE XFinish("boxlite", "runScript", TRUE, "none", {}, o.causes \cup causes)

\* getOrCreateBox, from the SimpleBox check to await this.box.exec('echo');
\* b is this.box as the code before left it
\* the boxes after await this.box.stop() on the box b settled: ok when it
\* resolved, otherwise it rejected and the box is taken to be still running
afterBoxStop(log, b, ok) ==
  IF b \in {"unready", "running"}
  THEN [log EXCEPT !.live = IF ok THEN @ - 1 ELSE @,
                   !.pending = IF log.tried THEN @ ELSE @ - 1,
                   !.tried = TRUE]
  ELSE log

\* the boxes after new SimpleBox({...}) succeeded
afterBoxCreate(log) ==
  [created |-> log.created + 1, live |-> log.live + 1, pending |-> log.pending + 1,
   tried |-> FALSE]

BlCreate(o, b, log, vols) ==
  IF SimpleBox = "null"
  THEN /\ BlFail(o, PlainError, {"boxCreate"})
       /\ box' = b
       /\ boxLog' = log
       /\ UNCHANGED <<currentImage, boxVolumes>>
  ELSE \E ctorOk \in BOOLEAN :
         IF ctorOk
         THEN /\ box' = "unready"
              /\ currentImage' = o.image
              /\ boxLog' = afterBoxCreate(log)
              /\ boxVolumes' = vols
              /\ xop' = [o EXCEPT !.pc = "ready"]
              /\ UNCHANGED xres
         ELSE /\ BlFail(o, PlainError, {"boxCreate"})
              /\ box' = b
              /\ boxLog' = log
              /\ UNCHANGED <<currentImage, boxVolumes>>

stopsHeldBox_never(b) == FALSE

\* getOrCreateBox: if (this.box) { await this.box.stop() }
stopsHeldBox(b) == b # "null"

\* BoxLiteProvider.exec up to its first await (inside getOrCreateBox); the
\* options are destructured as { command, args, cwd, env, image }, so
\* options.timeout is carried by the call but read by nothing
BlExecStart(img, hasTimeout, cmd) ==
  /\ xop.name = "none"
  /\ opsStarted < MaxOps
  /\ opsStarted' = opsStarted + 1
  /\ LET target == orElse(img, orElse(currentImage, "node:18-alpine"))
         o == [NoOp EXCEPT !.name = "exec", !.prov = "boxlite", !.image = target,
                           !.timeout = hasTimeout, !.cmd = cmd]
     IN IF box # "null" /\ currentImage = target
        THEN /\ xop' = [o EXCEPT !.pc = "run"]
             /\ UNCHANGED <<box, currentImage, xres, boxLog, boxVolumes>>
        ELSE IF stopsHeldBox(box)
        THEN /\ xop' = [o EXCEPT !.pc = "stopOld"]
             /\ UNCHANGED <<box, currentImage, xres, boxLog, boxVolumes>>
        ELSE BlCreate(o, box, boxLog, volumes)
  /\ UNCHANGED <<codexInstalled, codexPath, proc>>
  /\ UNCHANGED selVars
  /\ UNCHANGED extVars
  /\ stopRec' = NoStops
  /\ UNCHANGED lastInit
  /\ UNCHANGED <<volumes, callerVolumes>>

\* getOrCreateBox after await this.box.stop() of the box of another image
BlStopOld ==
  /\ xop.pc = "stopOld"
  /\ \E stopOk \in BOOLEAN :
        BlCreate(xop, IF stopOk THEN "stopped" ELSE box, afterBoxStop(boxLog, box, stopOk),
                 volumes)
  /\ UNCHANGED <<codexInstalled, codexPath, proc, opsStarted>>
  /\ UNCHANGED selVars
  /\ UNCHANGED extVars
  /\ UNCHANGED lifeVars
  /\ UNCHANGED <<volumes, callerVolumes>>

\* getOrCreateBox after await this.box.exec('echo', 'Box ready')
BlReady ==
  /\ xop.pc = "ready"
  /\ \/ /\ box' = "running"
        /\ xop' = [xop EXCEPT !.pc = IF xop.name = "exec" THEN "run"
                                     ELSE IF xop.pkgs /\ xop.runtime # "python" THEN "install"
                                     ELSE "script"]
        /\ UNCHANGED xres
     \/ /\ \E err \in ThrownErrors : BlFail(xop, err, {"boxCreate"})
        /\ UNCHANGED box
  /\ UNCHANGED <<currentImage, codexInstalled, codexPath, proc, opsStarted>>
  /\ UNCHANGED selVars
  /\ UNCHANGED extVars
  /\ UNCHANGED lifeVars
  /\ UNCHANGED boxVars

\* BoxLiteProvider.exec after await box.exec('sh', '-c', fullCommand): the
\* await resolves when the command has ended, and no timer is set beside it
BlRun ==
  /\ xop.pc = "run"
  /\ xop.cmd = "ends"
  /\ \/ \E res \in BoxResults :
          XFinish("boxlite", "exec", FALSE, blExecResult(res).exitCode,
                  blExecResult(res).stderr,
                  IF res.exitCode # "0" THEN {"nonzero"} ELSE {})
     \/ \E err \in ThrownErrors : BlFail(xop, err, {"execThrew"})
  /\ UNCHANGED <<box, currentImage, codexInstalled, codexPath, proc, opsStarted>>
  /\ UNCHANGED selVars
  /\ UNCHANGED extVars
  /\ UNCHANGED lifeVars
  /\ UNCHANGED boxVars

\* runScript: this.setVolumes([{ hostPath: workDir, guestPath: workDir }])
runScriptVolumes == "workDir"

\* BoxLiteProvider.runScript up to its first await
BlRunScriptStart(rt, pkgs) ==
  /\ xop.name = "none"
  /\ opsStarted < MaxOps
  /\ opsStarted' = opsStarted + 1
  /\ LET o == [NoOp EXCEPT !.name = "runScript", !.prov = "boxlite",
                           !.image = scriptImage(rt), !.runtime = rt, !.pkgs = pkgs]
     IN IF box # "null"
        THEN /\ xop' = [o EXCEPT !.pc = "rsStop"]
             /\ UNCHANGED <<box, currentImage, xres, boxLog, boxVolumes>>
        ELSE BlCreate(o, "null", boxLog, runScriptVolumes)
  /\ volumes' = runScriptVolumes
  /\ UNCHANGED callerVolumes
  /\ UNCHANGED <<codexInstalled, codexPath, proc>>
  /\ UNCHANGED selVars
  /\ UNCHANGED extVars
  /\ stopRec' = NoStops
  /\ UNCHANGED lastInit

\* runScript after await this.box.stop(): this.box = null, then getOrCreateBox
BlRsStop ==
  /\ xop.pc = "rsStop"
  /\ \E stopOk \in BOOLEAN :
        BlCreate(xop, "null", afterBoxStop(boxLog, box, stopOk), volumes)
  /\ UNCHANGED <<codexInstalled, codexPath, proc, opsStarted>>
  /\ UNCHANGED selVars
  /\ UNCHANGED extVars
  /\ UNCHANGED lifeVars
  /\ UNCHANGED <<volumes, callerVolumes>>

\* runScript after await box.exec(npm install ...): the result is not looked at
BlInstall ==
  /\ xop.pc = "install"
  /\ \/ \E res \in BoxResults :
          /\ xop' = [xop EXCEPT !.pc = "script", !.installed = TRUE,
                                !.causes = IF res.exitCode # "0" THEN @ \cup {"install"} ELSE @]
          /\ UNCHANGED xres
     \/ \E err \in ThrownErrors : BlFail(xop, err, {"install"})
  /\ UNCHANGED <<box, currentImage, codexInstalled, codexPath, proc, opsStarted>>
  /\ UNCHANGED selVars
  /\ UNCHANGED extVars
  /\ UNCHANGED lifeVars
  /\ UNCHANGED boxVars

\* runScript after await box.exec(<runtime> <script>)
BlScript ==
  /\ xop.pc = "script"
  /\ \/ \E res \in BoxResults :
          /\ xop' = [xop EXCEPT !.pc = "sync", !.exitCode = res.exitCode,
                                !.stderr = res.stderr,
                                !.causes = IF res.exitCode # "0" THEN @ \cup {"scriptFailed"} ELSE @]
          /\ UNCHANGED xres
     \/ \E err \in ThrownErrors : BlFail(xop, err, {"scriptFailed"})
  /\ UNCHANGED <<box, currentImage, codexInstalled, codexPath, proc, opsStarted>>
  /\ UNCHANGED selVars
  /\ UNCHANGED extVars
  /\ UNCHANGED lifeVars
  /\ UNCHANGED boxVars

\* runScript after the file sync (every failure in it is caught): return
BlSync ==
  /\ xop.pc = "sync"
  /\ XFinish("boxlite", "runScript", FALSE,
             blExecResult([stderr |-> xop.stderr, exitCode |-> xop.exitCode]).exitCode,
             blExecResult([stderr |-> xop.stderr, exitCode |-> xop.exitCode]).stderr,
             xop.causes)
  /\ UNCHANGED <<box, currentImage, codexInstalled, codexPath, proc, opsStarted>>
  /\ UNCHANGED selVars
  /\ UNCHANGED extVars
  /\ UNCHANGED lifeVars
  /\ UNCHANGED boxVars

\* a stop()/shutdown() call on provider prov returned after invoking the
\* stop of the underlying box rel times
StopCall(prov, rel) ==
  stopRec' = [prov |-> prov,
              calls |-> IF stopRec.prov # prov THEN 1
                        ELSE IF stopRec.calls < 2 THEN stopRec.calls + 1 ELSE 2,
              released |-> rel,
              prior |-> IF stopRec.prov # prov THEN 0
                        ELSE IF stopRec.prior + stopRec.released > 0 THEN 1 ELSE 0,
              threw |-> FALSE]

\* BoxLiteProvider.stop(): this.box after a call that found the box b
blAfterStop_kept(b) == b

blAfterStop(b) == "null"

\* BoxLiteProvider.stop() and shutdown(), which returns this.stop(): when
\* this.box is set the box is stopped (an error is caught) and this.box = null
BlStop(via) ==
  /\ xop.name = "none"
  /\ IF box # "null"
     THEN /\ StopCall("boxlite", 1)
          /\ box' = blAfterStop(box)
          /\ \E stopOk \in BOOLEAN : boxLog' = afterBoxStop(boxLog, box, stopOk)
     ELSE /\ StopCall("boxlite", 0)
          /\ UNCHANGED <<box, boxLog>>
  /\ stopRec' # stopRec
  /\ UNCHANGED <<currentImage, codexInstalled, codexPath, xop, proc, xres, opsStarted>>
  /\ UNCHANGED lastInit
  /\ UNCHANGED <<volumes, boxVolumes, callerVolumes>>
  /\ UNCHANGED selVars
  /\ UNCHANGED extVars

\* CodexProvider.stop() and shutdown(): there is nothing to release
CxStop(via) ==
  /\ xop.name = "none"
  /\ StopCall("codex", 0)
  /\ stopRec' # stopRec
  /\ UNCHANGED <<box, currentImage, codexInstalled, codexPath, xop, proc, xres, opsStarted>>
  /\ UNCHANGED lastInit
  /\ UNCHANGED boxVars
  /\ UNCHANGED selVars
  /\ UNCHANGED extVars

\* CodexProvider.init(): this.codexPath = getCodexPath(); a missing CLI is
\* only logged with console.warn
CxInit ==
  /\ xop.name = "none"
  /\ codexPath' = IF codexInstalled THEN "path" ELSE "undefined"
  /\ lastInit' = [prov |-> "codex", available |-> codexInstalled, threw |-> FALSE]
  /\ UNCHANGED boxVars
  /\ UNCHANGED <<box, currentImage, codexInstalled, xop, proc, xres, opsStarted, stopRec>>
  /\ UNCHANGED selVars
  /\ UNCHANGED extVars

\* BaseSandboxProvider.init() of a derived provider that does not override
\* it: the config is merged and this.initialized = true; isAvailable() of
\* the subclass (avail) is not consulted
BaseInit(avail) ==
  /\ xop.name = "none"
  /\ lastInit' = [prov |-> "base", available |-> avail, threw |-> FALSE]
  /\ UNCHANGED boxVars
  /\ UNCHANGED <<box, currentImage, codexInstalled, codexPath, xop, proc, xres,
                 opsStarted, stopRec>>
  /\ UNCHANGED selVars
  /\ UNCHANGED extVars

\* CodexProvider.isAvailable(): this.codexPath = getCodexPath()
CxResolvePath ==
  /\ xop.name = "none"
  /\ codexPath' = IF codexInstalled THEN "path" ELSE "undefined"
  /\ UNCHANGED <<box, currentImage, codexInstalled, xop, proc, xres, opsStarted>>
  /\ UNCHANGED selVars
  /\ UNCHANGED extVars
  /\ UNCHANGED lifeVars
  /\ UNCHANGED boxVars

\* CodexProvider.exec / runScript: the result when this.codexPath is not set
cxNoPathResult == [stderr |-> {"Codex CLI is not installed"}, exitCode |-> "1"]

cxInstallFailedResult_zero == [stderr |-> {}, exitCode |-> "0"]

\* CodexProvider.runScript: the result when execSync(pip/npm install) threw
cxInstallFailedResult == [stderr |-> {"Failed to install packages", "errmsg"}, exitCode |-> "1"]

\* proc.on('close'): resolve({ stderr, exitCode: code || 0 })
cxCloseResult(code, err) == [stderr |-> err, exitCode |-> orElse(code, "0")]

\* proc.on('error'): resolve({ stderr: stderr + '\n' + error.message, exitCode: 1 })
cxErrorResult(err) == [stderr |-> err \cup {"\n", "errmsg"}, exitCode |-> "1"]

\* CodexProvider.exec up to spawn(); options.timeout may be absent
CxExecStart(hasTimeout) ==
  /\ xop.name = "none"
  /\ opsStarted < MaxOps
  /\ opsStarted' = opsStarted + 1
  /\ IF codexPath = "undefined"
     THEN /\ XFinish("codex", "exec", FALSE, cxNoPathResult.exitCode,
                     cxNoPathResult.stderr, {"noCodex"})
          /\ UNCHANGED proc
     ELSE /\ xop' = [NoOp EXCEPT !.name = "exec", !.prov = "codex", !.pc = "spawned"]
          /\ proc' = [state |-> "running", stderr |-> {}, lateFire |-> FALSE,
                      timer |-> IF hasTimeout THEN "armed" ELSE "none"]
          /\ UNCHANGED xres
  /\ UNCHANGED <<box, currentImage, codexInstalled, codexPath>>
  /\ UNCHANGED selVars
  /\ UNCHANGED extVars
  /\ stopRec' = NoStops
  /\ UNCHANGED lastInit
  /\ UNCHANGED boxVars

\* CodexProvider.runScript up to spawn(): packages are installed with
\* execSync before the sandboxed process is spawned; the timer is always set
CxRunScriptStart(rt, pkgs) ==
  /\ xop.name = "none"
  /\ opsStarted < MaxOps
  /\ opsStarted' = opsStarted + 1
  /\ IF codexPath = "undefined"
     THEN /\ XFinish("codex", "runScript", FALSE, cxNoPathResult.exitCode,
                     cxNoPathResult.stderr, {"noCodex"})
          /\ UNCHANGED proc
     ELSE \E installOk \in BOOLEAN :
            IF pkgs /\ ~installOk
            THEN /\ XFinish("codex", "runScript", FALSE, cxInstallFailedResult.exitCode,
                            cxInstallFailedResult.stderr, {"install"})
                 /\ UNCHANGED proc
            ELSE /\ xop' = [NoOp EXCEPT !.name = "runScript", !.prov = "codex",
                                        !.pc = "spawned", !.runtime = rt,
                                        !.pkgs = pkgs, !.installed = pkgs]
                 /\ proc' = [state |-> "running", stderr |-> {}, timer |-> "armed",
                             lateFire |-> FALSE]
                 /\ UNCHANGED xres
  /\ UNCHANGED <<box, currentImage, codexInstalled, codexPath>>
  /\ UNCHANGED selVars
  /\ UNCHANGED extVars
  /\ stopRec' = NoStops
  /\ UNCHANGED lastInit
  /\ UNCHANGED boxVars

\* proc.stderr.on('data')
CxStderrData ==
  /\ proc.state = "running"
  /\ "out" \notin proc.stderr
  /\ proc' = [proc EXCEPT !.stderr = @ \cup {"out"}]
  /\ UNCHANGED <<box, currentImage, codexInstalled, codexPath, xop, xres, opsStarted>>
  /\ UNCHANGED selVars
  /\ UNCHANGED extVars
  /\ UNCHANGED lifeVars
  /\ UNCHANGED boxVars

\* the setTimeout callback: proc.kill('SIGTERM'); stderr += '\nExecution timed out'
CxTimerFire ==
  /\ proc.timer = "armed"
  /\ proc' = [proc EXCEPT !.timer = "fired",
                          !.stderr = @ \cup {"\n", "Execution timed out"},
                          !.lateFire = (proc.state # "running")]
  /\ UNCHANGED <<box, currentImage, codexInstalled, codexPath, xop, xres, opsStarted>>
  /\ UNCHANGED selVars
  /\ UNCHANGED extVars
  /\ UNCHANGED lifeVars
  /\ UNCHANGED boxVars

\* causes of failure seen by the child process when the call resolves
ProcCauses == IF proc.timer = "fired" THEN {"timeout"} ELSE {}

timerAfterEvent_kept(t) == t

\* if (timeoutId) clearTimeout(timeoutId), in the 'close' and 'error' handlers:
\* a timer that has not fired will not fire
timerAfterEvent(t) == IF t = "armed" THEN "none" ELSE t

\* the child process object after the event that resolved the call: after
\* 'error' a 'close' may still follow
procAfterEvent(pr, next) ==
  LET t == timerAfterEvent(pr.timer)
  IN [state |-> IF t = "armed" /\ next = "none" THEN "closed" ELSE next,
      stderr |-> {}, timer |-> IF t = "armed" THEN t ELSE "none",
      lateFire |-> FALSE]

\* proc.on('close', code): code is null when a signal ended the process
CxProcClose(code) ==
  /\ proc.state = "running"
  /\ XFinish("codex", xop.name, FALSE, cxCloseResult(code, proc.stderr).exitCode,
             cxCloseResult(code, proc.stderr).stderr,
             ProcCauses \cup (IF code = "null" THEN {"signal"}
                              ELSE IF code # "0" THEN {"nonzero"} ELSE {}))
  /\ proc' = procAfterEvent(proc, "none")
  /\ UNCHANGED <<box, currentImage, codexInstalled, codexPath, opsStarted>>
  /\ UNCHANGED selVars
  /\ UNCHANGED extVars
  /\ UNCHANGED lifeVars
  /\ UNCHANGED boxVars

\* proc.on('error', error): the process could not be spawned
CxProcError ==
  /\ proc.state = "running"
  /\ XFinish("codex", xop.name, FALSE, cxErrorResult(proc.stderr).exitCode,
             cxErrorResult(proc.stderr).stderr, ProcCauses \cup {"spawnError"})
  /\ proc' = procAfterEvent(proc, "errored")
  /\ UNCHANGED <<box, currentImage, codexInstalled, codexPath, opsStarted>>
  /\ UNCHANGED selVars
  /\ UNCHANGED extVars
  /\ UNCHANGED lifeVars
  /\ UNCHANGED boxVars

\* proc.on('close') after proc.on('error') has resolved the call: the timer
\* is cleared again and resolve() is called on a promise already resolved,
\* which changes nothing
CxLateClose ==
  /\ proc.state = "errored"
  /\ proc' = procAfterEvent(proc, "none")
  /\ UNCHANGED <<box, currentImage, codexInstalled, codexPath, xop, xres, opsStarted>>
  /\ UNCHANGED selVars
  /\ UNCHANGED extVars
  /\ UNCHANGED lifeVars
  /\ UNCHANGED boxVars

\* the module state a provider call may find: BoxLite loaded or not
InitExec ==
  /\ ExecInit
  /\ ExtInit
  /\ poolMaxSize = MaxPoolSize
  /\ PoolEmpty
  /\ devSignals = {}
  /\ initialized = FALSE
  /\ plugins = [t \in ProviderTypes |-> "none"]
  /\ singletons = {}
  /\ SimpleBox \in {"null", "SimpleBoxDirect", "npm"}
  /\ boxliteModuleLoaded = (SimpleBox # "null")
  /\ boxliteRuntimeVerified = FALSE
  /\ boxliteRuntimeError = "null"
  /\ sel = [p \in Procs |-> IdleSel]
  /\ av = [p \in Procs |-> NoAv]
  /\ result = [p \in Procs |-> NoResult]
  /\ probeCount = 0
  /\ overlapped = FALSE
  /\ firstAvail = "none"
  /\ lastAvail = "none"
  /\ resolvedCount = 0
  /\ callsStarted = 0

NextExec ==
  \/ \E img \in {"undefined", "node:18-alpine", "python:3.11-slim"},
        hasTimeout \in BOOLEAN, cmd \in {"ends", "hangs"} : BlExecStart(img, hasTimeout, cmd)
  \/ BlStopOld
  \/ BlReady
  \/ BlRun
  \/ \E rt \in {"node", "python", "bun"}, pkgs \in BOOLEAN : BlRunScriptStart(rt, pkgs)
  \/ BlRsStop
  \/ BlInstall
  \/ BlScript
  \/ BlSync
  \/ \E via \in {"stop", "shutdown"} : BlStop(via)
  \/ \E via \in {"stop", "shutdown"} : CxStop(via)
  \/ CxResolvePath
  \/ CxInit
  \/ \E avail \in BOOLEAN : BaseInit(avail)
  \/ \E hasTimeout \in BOOLEAN : CxExecStart(hasTimeout)
  \/ \E rt \in {"python", "node", "npx"}, pkgs \in BOOLEAN : CxRunScriptStart(rt, pkgs)
  \/ CxStderrData
  \/ CxTimerFire
  \/ \E code \in {"0", "1", "null"} : CxProcClose(code)
  \/ CxProcError
  \/ CxLateClose

SpecExec == InitExec /\ [][NextExec]_vars

\* BoxLiteProvider.setVolumes(volumes): this.volumes = volumes
BlSetVolumes(v) ==
  /\ xop.name = "none"
  /\ volumes # v
  /\ volumes' = v
  /\ callerVolumes' = v
  /\ UNCHANGED <<boxLog, boxVolumes>>
  /\ UNCHANGED <<box, currentImage, codexInstalled, codexPath, xop, proc, xres, opsStarted>>
  /\ UNCHANGED lifeVars
  /\ UNCHANGED selVars
  /\ UNCHANGED extVars

NextBox ==
  \/ \E img \in {"undefined", "node:18-alpine", "python:3.11-slim"},
        hasTimeout \in BOOLEAN, cmd \in {"ends", "hangs"} : BlExecStart(img, hasTimeout, cmd)
  \/ BlStopOld
  \/ BlReady
  \/ BlRun
  \/ \E rt \in {"node", "python", "bun"}, pkgs \in BOOLEAN : BlRunScriptStart(rt, pkgs)
  \/ BlRsStop
  \/ BlInstall
  \/ BlScript
  \/ BlSync
  \/ \E via \in {"stop", "shutdown"} : BlStop(via)
  \/ \E v \in {"mountsA", "mountsB"} : BlSetVolumes(v)

\* one BoxLiteProvider instance, its calls made one at a time
SpecBox == InitExec /\ [][NextBox]_vars

\* The event loop runs every continuation whose awaited promise has settled,
\* and a timer that is due fires; nothing is assumed of when a child
\* process ends or of which calls the callers make.
BoxLiteContinuations ==
  BlStopOld \/ BlReady \/ BlRun \/ BlRsStop \/ BlInstall \/ BlScript \/ BlSync

SpecExecFair ==
  /\ InitExec
  /\ [][NextExec]_vars
  /\ WF_vars(BoxLiteContinuations)
  /\ WF_vars(CxTimerFire)

\* ------------------------------------------------------------------------
\* Properties of exec and runScript
\* ------------------------------------------------------------------------
\* failures reported by the provider itself rather than by the command
InternalFailures == {"boxCreate", "execThrew", "spawnError", "noCodex"}

\* C9 as stated: exec returns every box creation failure, spawn error and
\* non-zero exit as an ExecResult with a non-zero exitCode and a non-empty
\* stderr, and never throws.
C9_ExecFailureHasStderr ==
  (xres.op = "exec" /\ xres.causes \cap {"boxCreate", "spawnError", "nonzero"} # {}) =>
    /\ ~xres.threw
    /\ xres.exitCode \notin {"0", "none"}
    /\ xres.stderr # {}

\* C9 amended: exec never throws for such a failure and returns it with a
\* non-zero exitCode; stderr is non-empty when the provider itself failed
\* (box creation, spawn error), while after a non-zero exit it is the
\* command's own stderr, which may be empty.
C9_ExecFailureAsResult ==
  (xres.op = "exec"
     /\ xres.causes \cap ({"nonzero"} \cup InternalFailures) # {}) =>
    /\ ~xres.threw
    /\ xres.exitCode \notin {"0", "none"}
    /\ xres.causes \cap InternalFailures # {} => xres.stderr # {}

C9_Witness ==
  /\ xres.op = "exec"
  /\ xres.prov = "boxlite"
  /\ "boxCreate" \in xres.causes
  /\ ~xres.threw
  /\ opsStarted = 2

\* C10: when box creation, package installation or the script command fails
\* inside the provider, runScript returns an ExecResult with exitCode and
\* stderr populated instead of throwing.
C10_RunScriptNeverThrows ==
  (xres.op = "runScript"
     /\ xres.causes \cap {"boxCreate", "install", "scriptFailed", "nonzero", "spawnError"} # {}) =>
    /\ ~xres.threw
    /\ xres.exitCode # "none"

\* C11: when the timeout of CodexProvider.exec or runScript expires before
\* the child process has closed, the process is sent SIGTERM and the
\* ExecResult returned has the timeout indicator in stderr and a non-zero
\* exitCode.
C11_TimeoutResult ==
  (xres.prov = "codex" /\ "timeout" \in xres.causes) =>
    /\ ~xres.threw
    /\ "Execution timed out" \in xres.stderr
    /\ xres.exitCode \notin {"0", "none"}

\* C12: BoxLiteProvider.exec honours options.timeout: a call given a timeout
\* whose command does not end on its own still returns, with a non-zero
\* exitCode and a timeout marker in stderr.
C12_BoxLiteExecHonoursTimeout ==
  (xop.prov = "boxlite" /\ xop.name = "exec" /\ xop.timeout /\ xop.cmd = "hangs"
     /\ xop.pc = "run")
    ~> (xop.name = "none" /\ xres.prov = "boxlite" /\ xres.op = "exec"
          /\ xres.exitCode \notin {"0", "none"} /\ xres.stderr # {})

\* C13: init() on a provider that is not available fails with an error
\* (checked here for CodexProvider and for providers that inherit
\* BaseSandboxProvider.init).
C13_InitFailsWhenUnavailable ==
  (lastInit.prov # "none" /\ ~lastInit.available) => lastInit.threw

PluginObjects == [type : {"", "native", "boxlite"}, name : {"", "named"},
                  factory : {"notCallable", "custom", "custom2"}]

\* defineSandboxPlugin: the three checks
pluginValid_noName(pl) == pl.type # "" /\ pl.factory \notin {"notCallable", "none"}

pluginValid(pl) == pl.type # "" /\ pl.name # "" /\ pl.factory \notin {"notCallable", "none"}

\* defineSandboxPlugin(plugin): throws, or returns plugin
defineSandboxPlugin(pl) ==
  IF pluginValid(pl) THEN [threw |-> FALSE, value |-> pl]
  ELSE [threw |-> TRUE, value |-> NoPlugin]

\* registry.register(plugin): a malformed plugin is a ConfigurationError at
\* registration time
registryAccepts(pl) == pl.type # "" /\ pl.name # "" /\ pl.factory \notin {"notCallable", "none"}

\* registry.create(type): the factory of the plugin registered under the type
registryCreate(pl, t) == [threw |-> pl[t] = "none", factory |-> pl[t]]

\* registry.getAvailable(): isAvailable() of every registered plugin; a is
\* what each check does ("true", "false", "throws")
getAvailable_fatal(pl, a) ==
  [threw |-> \E t \in ProviderTypes : pl[t] # "none" /\ a[t] = "throws",
   types |-> {t \in ProviderTypes : pl[t] # "none" /\ a[t] = "true"}]

getAvailable(pl, a) ==
  [threw |-> FALSE,
   types |-> {t \in ProviderTypes : pl[t] # "none" /\ a[t] = "true"}]

\* GET /providers/sandbox/available: c.json({ available }), or 500 from the catch
availableRoute(r) ==
  IF r.threw THEN [status |-> 500, available |-> {}]
  ELSE [status |-> 200, available |-> r.types]

\* initSandbox()
RgInitSandbox ==
  /\ initialized' = TRUE
  /\ plugins' = initSandboxPlugins
  /\ lastRegistered' = IF initialized THEN lastRegistered ELSE AfterBuiltins(lastRegistered)
  /\ UNCHANGED lastCustom
  /\ lastDefine' = NoDefine
  /\ lastCreate' = NoCreate
  /\ lastAvailable' = NoAvailable
  /\ UNCHANGED <<execVars, poolVars, instVars, sbVars, auxVars, apiVars>>
  /\ UNCHANGED <<devSignals, singletons, moduleVars, sel, av, result, probeCount,
                 overlapped, availHistory, callsStarted>>

\* registerSandboxPlugin(defineSandboxPlugin(pl)) when defined, and
\* registerSandboxPlugin(pl) on the object as built otherwise
RgRegister(pl, defined) ==
  LET d == IF defined THEN defineSandboxPlugin(pl) ELSE [threw |-> FALSE, value |-> pl]
      accepted == ~d.threw /\ registryAccepts(d.value)
  IN /\ lastDefine' = [plugin |-> pl, defined |-> defined, threw |-> ~accepted,
                        stage |-> IF d.threw THEN "define"
                                  ELSE IF ~accepted THEN "register" ELSE "none",
                        returned |-> IF defined THEN d.value ELSE NoPlugin,
                        registered |-> accepted]
     /\ IF accepted
        THEN /\ plugins' = registryRegister(plugins, d.value.type, d.value.factory)
             /\ lastRegistered' = [lastRegistered EXCEPT ![pl.type] = pl.factory]
             /\ lastCustom' = [lastCustom EXCEPT ![pl.type] = pl.factory]
        ELSE UNCHANGED <<plugins, lastRegistered, lastCustom>>
     /\ lastCreate' = NoCreate
     /\ lastAvailable' = NoAvailable
     /\ UNCHANGED <<execVars, poolVars, instVars, sbVars, auxVars, apiVars>>
     /\ UNCHANGED <<devSignals, initialized, singletons, moduleVars, sel, av, result,
                    probeCount, overlapped, availHistory, callsStarted>>

\* registry.create({ type: t })
RgCreate(t) ==
  /\ lastCreate' = [type |-> t, threw |-> registryCreate(plugins, t).threw,
                    factory |-> registryCreate(plugins, t).factory,
                    newest |-> lastRegistered[t]]
  /\ lastDefine' = NoDefine
  /\ lastAvailable' = NoAvailable
  /\ UNCHANGED <<execVars, poolVars, instVars, sbVars, auxVars, apiVars>>
  /\ UNCHANGED <<devSignals, initialized, plugins, singletons, moduleVars, sel, av,
                 result, probeCount, overlapped, availHistory, callsStarted,
                 lastRegistered, lastCustom>>

\* GET /providers/sandbox/available
RgGetAvailable(a) ==
  /\ lastAvailable' = [status |-> availableRoute(getAvailable(plugins, a)).status,
                       checked |-> a,
                       registered |-> {t \in ProviderTypes : plugins[t] # "none"},
                       available |-> availableRoute(getAvailable(plugins, a)).available]
  /\ lastDefine' = NoDefine
  /\ lastCreate' = NoCreate
  /\ UNCHANGED <<execVars, poolVars, instVars, sbVars, auxVars, apiVars>>
  /\ UNCHANGED <<devSignals, initialized, plugins, singletons, moduleVars, sel, av,
                 result, probeCount, overlapped, availHistory, callsStarted,
                 lastRegistered, lastCustom>>

\* the registry before initSandbox() and before any plugin is registered
InitRegistry ==
  /\ ExecInit
  /\ ExtInit
  /\ poolMaxSize = MaxPoolSize
  /\ PoolEmpty
  /\ codexInstalled
  /\ devSignals = {}
  /\ initialized = FALSE
  /\ plugins = [t \in ProviderTypes |-> "none"]
  /\ singletons = {}
  /\ SimpleBox = "null"
  /\ boxliteModuleLoaded = FALSE
  /\ boxliteRuntimeVerified = FALSE
  /\ boxliteRuntimeError = "null"
  /\ sel = [p \in Procs |-> IdleSel]
  /\ av = [p \in Procs |-> NoAv]
  /\ result = [p \in Procs |-> NoResult]
  /\ probeCount = 0
  /\ overlapped = FALSE
  /\ firstAvail = "none"
  /\ lastAvail = "none"
  /\ resolvedCount = 0
  /\ callsStarted = 0

NextRegistry ==
  \/ RgInitSandbox
  \/ \E pl \in PluginObjects, defined \in BOOLEAN : RgRegister(pl, defined)
  \/ \E t \in ProviderTypes : RgCreate(t)
  \/ \E a \in [ProviderTypes -> {"true", "false", "throws"}] : RgGetAvailable(a)

SpecRegistry == InitRegistry /\ [][NextRegistry]_vars

\* C15: a plugin with an empty type, an empty name or a factory that is not
\* callable is rejected with an error at once (by defineSandboxPlugin when it
\* is defined through it) and is not registered; a plugin that has all three
\* is accepted, and defineSandboxPlugin returns it unchanged.
C15_InvalidPluginRejected ==
  LET pl == lastDefine.plugin
      invalid == pl.type = "" \/ pl.name = "" \/ pl.factory = "notCallable"
  IN pl # NoPlugin =>
       /\ invalid => /\ lastDefine.threw
                     /\ ~lastDefine.registered
                     /\ lastDefine.defined => lastDefine.stage = "define"
       /\ ~invalid => /\ ~lastDefine.threw
                      /\ lastDefine.registered
                      /\ plugins[pl.type] = pl.factory
                      /\ lastDefine.defined => lastDefine.returned = pl

C15_Witness ==
  /\ lastDefine.plugin.name = ""
  /\ lastDefine.plugin.type = "native"
  /\ lastDefine.plugin.factory = "custom"
  /\ lastDefine.defined
  /\ lastDefine.threw
  /\ plugins["native"] = "custom2"

\* C16: after any sequence of register calls a type maps to the plugin
\* registered last under it, and registry.create for the type uses the
\* factory of that plugin.
C16_LastRegisteredWins ==
  /\ plugins = lastRegistered
  /\ (lastCreate.type # "none" /\ lastCreate.newest # "none") =>
        (~lastCreate.threw /\ lastCreate.factory = lastCreate.newest)

C16_Witness ==
  /\ lastCreate.type = "native"
  /\ lastCreate.factory = "custom2"
  /\ ~lastCreate.threw
  /\ initialized

\* C17: getAvailable() returns exactly the registered types whose
\* isAvailable() resolves true; a check that throws leaves its type out and
\* does not fail the aggregate call.
C17_GetAvailableExact ==
  lastAvailable.status # 0 =>
    /\ lastAvailable.status = 200
    /\ lastAvailable.available =
         {t \in lastAvailable.registered : lastAvailable.checked[t] = "true"}

C17_Witness ==
  /\ lastAvailable.status = 200
  /\ lastAvailable.registered = ProviderTypes
  /\ lastAvailable.checked["boxlite"] = "throws"
  /\ lastAvailable.checked["codex"] = "false"
  /\ lastAvailable.available = {"native", "claude"}

\* ------------------------------------------------------------------------
\* The instance pool (one provider type and configuration fingerprint)
\* ------------------------------------------------------------------------
\* entry states: "absent" (free slot), "creating" (slot taken, instance being
\* constructed), "idle", "inUse"; old: lastUsedAt lies more than the TTL back

\* the size compared with the maximum: every slot taken, the entries still
\* being created included
poolSize_ready(ents) == Cardinality({e \in PoolSlots : ents[e].state \in {"idle", "inUse"}})

poolSize(ents) == Cardinality({e \in PoolSlots : ents[e].state # "absent"})

idleEntries(ents) == {e \in PoolSlots : ents[e].state = "idle"}

freeSlots(ents) == {e \in PoolSlots : ents[e].state = "absent"}

lowest(S) == CHOOSE e \in S : \A f \in S : e <= f

\* the entry an acquire hands to caller c
takenEntry(c) == [state |-> "inUse", holder |-> c, old |-> FALSE, stopped |-> FALSE]

\* release(): the entry as it is put back in the idle set
releasedEntry(en) == [state |-> "idle", holder |-> "none", old |-> FALSE,
                      stopped |-> en.stopped]

\* the idle sweep evicts and stops entry en
sweepEvicts_anyOld(en) == en.state \in {"idle", "inUse"} /\ en.old

sweepEvicts(en) == en.state = "idle" /\ en.old

\* a blocked acquire arms its wait timeout
waitArmsTimer_never == FALSE

waitArmsTimer == TRUE

\* acquire(type, config): an idle entry, else a new one under the maximum
\* (the slot is taken in the same step as the size check), else wait
PoolAcquire(c) ==
  /\ caller[c].pc = "idle"
  /\ IF idleEntries(entries) # {}
     THEN LET e == lowest(idleEntries(entries))
          IN /\ entries' = [entries EXCEPT ![e] = takenEntry(c)]
             /\ caller' = [caller EXCEPT ![c] = [NoCaller EXCEPT !.pc = "holding",
                                                  !.entry = e, !.via = "idle"]]
     ELSE IF poolSize(entries) < poolMaxSize /\ freeSlots(entries) # {}
     THEN LET e == lowest(freeSlots(entries))
          IN /\ entries' = [entries EXCEPT ![e] = [takenEntry(c) EXCEPT !.state = "creating"]]
             /\ caller' = [caller EXCEPT ![c] = [NoCaller EXCEPT !.pc = "creating",
                                                  !.entry = e]]
     ELSE /\ caller' = [caller EXCEPT ![c] = [NoCaller EXCEPT !.pc = "waiting",
                                               !.armed = waitArmsTimer]]
          /\ UNCHANGED entries
  /\ UNCHANGED <<poolMaxSize, lastSweep, regObs>>
  /\ UNCHANGED <<selVars, execVars, sbVars, auxVars, apiVars>>

\* acquire after the new instance has been constructed and initialised
PoolCreated(c) ==
  /\ caller[c].pc = "creating"
  /\ entries' = [entries EXCEPT ![caller[c].entry].state = "inUse"]
  /\ caller' = [caller EXCEPT ![c].pc = "holding", ![c].via = "created"]
  /\ UNCHANGED <<poolMaxSize, lastSweep, regObs>>
  /\ UNCHANGED <<selVars, execVars, sbVars, auxVars, apiVars>>

\* release(pooledSandbox): the entry goes to a blocked acquire if there is
\* one, else back to the idle set
PoolRelease(c) ==
  /\ caller[c].pc = "holding"
  /\ LET e == caller[c].entry
         waiting == {w \in PoolCallers : caller[w].pc = "waiting"}
     IN IF waiting # {} /\ entries[e].state = "inUse"
        THEN \E w \in waiting :
               /\ entries' = [entries EXCEPT ![e] = takenEntry(w)]
               /\ caller' = [caller EXCEPT ![c] = NoCaller,
                                            ![w] = [NoCaller EXCEPT !.pc = "holding",
                                                     !.entry = e, !.via = "handoff"]]
        ELSE /\ entries' = [entries EXCEPT ![e] = IF entries[e].state = "inUse"
                                                    THEN releasedEntry(entries[e])
                                                    ELSE entries[e]]
             /\ caller' = [caller EXCEPT ![c] = NoCaller]
  /\ UNCHANGED <<poolMaxSize, lastSweep, regObs>>
  /\ UNCHANGED <<selVars, execVars, sbVars, auxVars, apiVars>>

\* the wait timeout of a blocked acquire elapses: PoolExhaustedError
PoolTimeout(c) ==
  /\ caller[c].pc = "waiting"
  /\ caller[c].armed
  /\ caller' = [caller EXCEPT ![c] = [NoCaller EXCEPT !.pc = "failed",
                                       !.error = "PoolExhaustedError",
                                       !.timedOut = TRUE]]
  /\ UNCHANGED <<poolMaxSize, entries, lastSweep, regObs>>
  /\ UNCHANGED <<selVars, execVars, sbVars, auxVars, apiVars>>

\* the caller has seen the error and may call acquire again
PoolFailureSeen(c) ==
  /\ caller[c].pc = "failed"
  /\ caller' = [caller EXCEPT ![c] = NoCaller]
  /\ UNCHANGED <<poolMaxSize, entries, lastSweep, regObs>>
  /\ UNCHANGED <<selVars, execVars, sbVars, auxVars, apiVars>>

\* time passes: entry e was last used more than the TTL ago
PoolTick(e) ==
  /\ entries[e].state \in {"idle", "inUse"}
  /\ ~entries[e].old
  /\ entries' = [entries EXCEPT ![e].old = TRUE]
  /\ UNCHANGED <<poolMaxSize, caller, lastSweep, regObs>>
  /\ UNCHANGED <<selVars, execVars, sbVars, auxVars, apiVars>>

\* the background sweep: evict and stop what sweepEvicts selects
PoolSweep ==
  LET evicted == {e \in PoolSlots : sweepEvicts(entries[e])}
  IN /\ evicted # {}
     /\ lastSweep' = {[state |-> entries[e].state, old |-> entries[e].old] : e \in evicted}
     /\ entries' = [e \in PoolSlots |-> IF e \in evicted THEN NoEntry ELSE entries[e]]
     /\ UNCHANGED <<poolMaxSize, caller, regObs>>
     /\ UNCHANGED <<selVars, execVars, sbVars, auxVars, apiVars>>

\* an empty pool with a configured maximum size
InitPool ==
  /\ ExecInit
  /\ ExtInit
  /\ PoolEmpty
  /\ poolMaxSize \in 1 .. MaxPoolSize
  /\ codexInstalled
  /\ devSignals = {}
  /\ initialized = FALSE
  /\ plugins = [t \in ProviderTypes |-> "none"]
  /\ singletons = {}
  /\ SimpleBox = "null"
  /\ boxliteModuleLoaded = FALSE
  /\ boxliteRuntimeVerified = FALSE
  /\ boxliteRuntimeError = "null"
  /\ sel = [p \in Procs |-> IdleSel]
  /\ av = [p \in Procs |-> NoAv]
  /\ result = [p \in Procs |-> NoResult]
  /\ probeCount = 0
  /\ overlapped = FALSE
  /\ firstAvail = "none"
  /\ lastAvail = "none"
  /\ resolvedCount = 0
  /\ callsStarted = 0

NextPool ==
  \/ \E c \in PoolCallers : PoolAcquire(c)
  \/ \E c \in PoolCallers : PoolCreated(c)
  \/ \E c \in PoolCallers : PoolRelease(c)
  \/ \E c \in PoolCallers : PoolTimeout(c)
  \/ \E c \in PoolCallers : PoolFailureSeen(c)
  \/ \E e \in PoolSlots : PoolTick(e)
  \/ PoolSweep

SpecPool == InitPool /\ [][NextPool]_vars

\* A timer that is due fires and a construction under way completes;
\* nothing is assumed of when a caller releases what it holds.
SpecPoolFair ==
  /\ InitPool
  /\ [][NextPool]_vars
  /\ \A c \in PoolCallers : WF_vars(PoolTimeout(c))
  /\ \A c \in PoolCallers : WF_vars(PoolCreated(c))

\* C18: under any interleaving of acquire and release calls the pool never
\* holds more than maxSize created entries of the type; two simultaneous
\* acquire calls never both create the maxSize-th entry.
C18_PoolBounded ==
  Cardinality({e \in PoolSlots : entries[e].state \in {"creating", "idle", "inUse"}})
    <= poolMaxSize

C18_Witness ==
  /\ poolMaxSize = 1
  /\ \E c \in PoolCallers : caller[c].pc = "creating"
  /\ \E c \in PoolCallers : caller[c].pc = "waiting"

\* C19: an acquire issued while the pool is at capacity with every entry in
\* use ends in one of two ways: it receives an entry that was released to
\* it, of which it is then the only holder, or it fails with
\* PoolExhaustedError after its wait timeout has elapsed; it never waits
\* forever.
C19_WaitEnds ==
  /\ [](\A c \in PoolCallers :
          /\ caller[c].pc = "failed" =>
                (caller[c].timedOut /\ caller[c].error = "PoolExhaustedError")
          /\ (caller[c].pc = "holding" /\ caller[c].via = "handoff") =>
                /\ entries[caller[c].entry].state = "inUse"
                /\ entries[caller[c].entry].holder = c
                /\ \A d \in PoolCallers \ {c} :
                     caller[d].pc = "holding" => caller[d].entry # caller[c].entry)
  /\ \A c \in PoolCallers :
        (caller[c].pc = "waiting") ~> (caller[c].pc \in {"holding", "failed"})

C19_Witness ==
  /\ poolMaxSize = 1
  /\ caller["c1"].pc = "failed"
  /\ caller["c2"].pc = "holding"
  /\ caller["c2"].via = "handoff"
  /\ caller["c3"].pc = "waiting"

\* C20: an entry in use is held by exactly one caller and is never evicted
\* or stopped by the idle sweep; the sweep evicts only idle entries older
\* than the TTL; release puts an entry back in the idle set without stopping
\* it.
C20_InUseExclusive ==
  /\ \A c \in PoolCallers :
        caller[c].pc = "holding" =>
          /\ entries[caller[c].entry].state = "inUse"
          /\ entries[caller[c].entry].holder = c
          /\ ~entries[caller[c].entry].stopped
          /\ \A d \in PoolCallers \ {c} :
               caller[d].pc = "holding" => caller[d].entry # caller[c].entry
  /\ \A e \in PoolSlots :
        entries[e].state = "inUse" =>
          \E c \in PoolCallers : caller[c].pc = "holding" /\ caller[c].entry = e
  /\ \A r \in lastSweep : r.state = "idle" /\ r.old
  /\ \A e \in PoolSlots : entries[e].state = "idle" => ~entries[e].stopped

C20_Witness ==
  /\ lastSweep # {}
  /\ \E c \in PoolCallers :
        /\ caller[c].pc = "holding"
        /\ entries[caller[c].entry].old
  /\ \E e \in PoolSlots : entries[e].state = "idle"

\* C21: getInstance(type) yields one process-wide singleton per type: under
\* any interleaving of selections asking for 'native', at most one instance
\* is ever constructed and every caller receives that instance.
C21_SingletonPerType ==
  /\ built <= 1
  /\ \A p \in Procs : got[p] # 0 => got[p] = 1

C21_Witness ==
  /\ built = 1
  /\ \A p \in Procs : got[p] = 1 /\ result[p].provider = "native"

\* C22: in every SelectionResult returned by getBestProviderWithInfo,
\* usedFallback is false exactly when the provider returned is the first
\* candidate in priority order (boxlite), and whenever usedFallback is true
\* the fallbackReason is present and non-empty.
C22_FallbackFlagExact ==
  \A p \in Procs :
    result[p].kind = "ok" =>
      /\ (result[p].usedFallback = FALSE) <=> (result[p].provider = "boxlite")
      /\ result[p].usedFallback => result[p].fallbackReason # ""

C22_Witness ==
  /\ result["p1"].kind = "ok"
  /\ result["p1"].provider = "boxlite"
  /\ ~result["p1"].usedFallback
  /\ result["p2"].kind = "ok"
  /\ result["p2"].provider = "native"
  /\ result["p2"].usedFallback

-----------------------------------------------------------------------------
\* The facade: execInSandbox / runScriptInSandbox, the providers' runtime
\* detection and the plugin factories

\* the providers getBestProviderWithInfo can hand to the facade
SbProviders == {"boxlite", "native"}

\* provider.type
providerType(prov) == prov

\* provider.name
providerName(prov) == IF prov = "boxlite" THEN "BoxLite VM" ELSE "Native Process"

\* provider.getCapabilities().isolation
capsIsolation(prov) == IF prov = "boxlite" THEN "vm" ELSE "none"

\* an annotation a result may already carry when the provider returns it
StaleAnnotation == [type |-> "stale", name |-> "stale", isolation |-> "container"]

\* the SandboxExecResult objects a provider's exec / runScript may resolve with
SbResults == [stdout : {{}, {"out"}}, stderr : {{}, {"err"}}, exitCode : {"0", "1"},
              duration : {0, 7}, provider : {NoAnnotation, StaleAnnotation}]

annotate_resultWins(res, prov) ==
  [res EXCEPT !.provider = IF res.provider = NoAnnotation
                           THEN [type |-> providerType(prov), name |-> providerName(prov),
                                 isolation |-> capsIsolation(prov)]
                           ELSE res.provider]

\* { ...result, provider: { type, name, isolation: caps.isolation } }
annotate(res, prov) ==
  [stdout |-> res.stdout, stderr |-> res.stderr, exitCode |-> res.exitCode,
   duration |-> res.duration,
   provider |-> [type |-> providerType(prov), name |-> providerName(prov),
                 isolation |-> capsIsolation(prov)]]

\* execInSandbox / runScriptInSandbox up to await provider.exec / runScript:
\* getBestProviderWithInfo resolved with a provider, or rejected
SbStart(op, prov) ==
  /\ sb.pc = "idle"
  /\ sbCalls < MaxOps
  /\ sbCalls' = sbCalls + 1
  /\ IF prov = "throws"
     THEN /\ sb' = NoSb
          /\ sbOut' = [NoSbOut EXCEPT !.op = op, !.threw = TRUE]
     ELSE /\ sb' = [pc |-> "run", op |-> op, prov |-> prov]
          /\ sbOut' = NoSbOut
  /\ detected' = NoDetected
  /\ lastFactory' = NoFactory
  /\ UNCHANGED orphans
  /\ UNCHANGED <<selVars, execVars, regObs, poolVars, auxVars, apiVars>>

\* the provider the facade used goes out of scope when the facade returns; a
\* BoxLite instance came from registry.create('boxlite') and nothing else
\* refers to it, the native instance is the registry's singleton
boxLeftRunning(prov, started) == prov = "boxlite" /\ started

\* execInSandbox / runScriptInSandbox after await provider.exec / runScript:
\* the result is annotated and returned, a rejection propagates
SbReturn(res, started, throws) ==
  /\ sb.pc = "run"
  /\ started => sb.prov = "boxlite"
  /\ throws => sb.op = "runScriptInSandbox"
  /\ sb' = NoSb
  /\ sbOut' = IF throws
              THEN [NoSbOut EXCEPT !.op = sb.op, !.prov = sb.prov, !.threw = TRUE]
              ELSE [op |-> sb.op, prov |-> sb.prov, threw |-> FALSE,
                    inner |-> res, outer |-> annotate(res, sb.prov)]
  /\ orphans' = IF boxLeftRunning(sb.prov, started) THEN orphans + 1 ELSE orphans
  /\ UNCHANGED <<sbCalls, detected, lastFactory>>
  /\ UNCHANGED <<selVars, execVars, regObs, poolVars, auxVars, apiVars>>

\* script paths, as the text pieces around their dots
ScriptPaths == {<<"a", ".", "py">>, <<"a", ".", "PY">>, <<"a", ".", "js">>,
                <<"a", ".", "mjs">>, <<"a", ".", "ts">>, <<"a", ".", "mts">>,
                <<"a", ".", "rb">>, <<"a">>, <<"py">>, <<".", "py">>}

\* index of the last dot of a path, 0 when it has none
RECURSIVE lastDot(_, _)
lastDot(path, i) ==
  IF i = 0 THEN 0 ELSE IF path[i] = "." THEN i ELSE lastDot(path, i - 1)

\* path.extname(filePath): from the last dot on, empty when the name has no
\* dot or only a leading one
extname(path) ==
  LET d == lastDot(path, Len(path))
  IN IF d <= 1 THEN <<>> ELSE SubSeq(path, d, Len(path))

\* filePath.split('.').pop(): what follows the last dot, the whole path when
\* it has none
splitPop(path) == SubSeq(path, lastDot(path, Len(path)) + 1, Len(path))

\* String.prototype.toLowerCase
toLowerCase(text) == [i \in DOMAIN text |-> IF text[i] = "PY" THEN "py" ELSE text[i]]

\* BoxLiteProvider.runScript: the runtime chosen from the extension
boxliteRuntime(path) ==
  LET ext == toLowerCase(extname(path))
  IN IF ext = <<".", "py">> THEN "python"
     ELSE IF ext \in {<<".", "ts">>, <<".", "mts">>} THEN "bun"
     ELSE "node"

\* CodexProvider.runScript: the runtime chosen from the extension
codexRuntime(path) ==
  LET ext == toLowerCase(extname(path))
  IN IF ext \in {<<".", "js">>, <<".", "mjs">>} THEN "node"
     ELSE IF ext \in {<<".", "ts">>, <<".", "mts">>} THEN "npx"
     ELSE "python"

\* BaseSandboxProvider.detectRuntime
detectRuntime(path) ==
  LET ext == toLowerCase(splitPop(path))
  IN IF ext = <<"py">> THEN "python"
     ELSE IF ext \in {<<"ts">>, <<"mts">>} THEN "bun"
     ELSE "node"

\* the family of a runtime: Python, Node, or a TypeScript runner
runtimeFamily(rt) ==
  IF rt = "python" THEN "python"
  ELSE IF rt \in {"bun", "npx"} THEN "typescript"
  ELSE IF rt = "node" THEN "node"
  ELSE "none"

\* one script path given to the three detections
SbDetect(path) ==
  /\ sb.pc = "idle"
  /\ detected' = [path |-> path, boxlite |-> boxliteRuntime(path),
                  codex |-> codexRuntime(path), base |-> detectRuntime(path)]
  /\ sbOut' = NoSbOut
  /\ lastFactory' = NoFactory
  /\ UNCHANGED <<sb, sbCalls, orphans>>
  /\ UNCHANGED <<selVars, execVars, regObs, poolVars, auxVars, apiVars>>

\* the configs a plugin factory may be called with: none, a
\* SandboxProviderConfig without a config field, one with a config field
FactoryConfigs == {"undefined", "typeOnly", "withConfig"}

\* createBoxLiteProvider: if (config?.config) { provider.init(config.config) };
\* createCodexProvider only constructs
factoryStartsInit(prov, cfg) == prov = "boxlite" /\ cfg = "withConfig"

\* boxlitePlugin.factory(config) / codexPlugin.factory(config)
SbFactory(prov, cfg) ==
  /\ sb.pc = "idle"
  /\ lastFactory' = [prov |-> prov, config |-> cfg,
                     initStarted |-> factoryStartsInit(prov, cfg)]
  /\ sbOut' = NoSbOut
  /\ detected' = NoDetected
  /\ UNCHANGED <<sb, sbCalls, orphans>>
  /\ UNCHANGED <<selVars, execVars, regObs, poolVars, auxVars, apiVars>>

NextSandbox ==
  \/ \E op \in {"execInSandbox", "runScriptInSandbox"},
        prov \in SbProviders \cup {"throws"} : SbStart(op, prov)
  \/ \E res \in SbResults, started \in BOOLEAN, throws \in BOOLEAN :
        SbReturn(res, started, throws)
  \/ \E path \in ScriptPaths : SbDetect(path)
  \/ \E prov \in {"boxlite", "codex"}, cfg \in FactoryConfigs : SbFactory(prov, cfg)

\* the facade before any call: the registry's initial state
SpecSandbox == InitRegistry /\ [][NextSandbox]_vars

\* C23: execInSandbox and runScriptInSandbox return the provider's result with
\* stdout, stderr, exitCode and duration unchanged, and with a provider
\* annotation whose type and name are the provider's and whose isolation is
\* the one getCapabilities() reports.
C23_ResultAnnotated ==
  (sbOut.op # "none" /\ ~sbOut.threw) =>
    /\ sbOut.outer.stdout = sbOut.inner.stdout
    /\ sbOut.outer.stderr = sbOut.inner.stderr
    /\ sbOut.outer.exitCode = sbOut.inner.exitCode
    /\ sbOut.outer.duration = sbOut.inner.duration
    /\ sbOut.outer.provider.type = providerType(sbOut.prov)
    /\ sbOut.outer.provider.name = providerName(sbOut.prov)
    /\ sbOut.outer.provider.isolation = capsIsolation(sbOut.prov)

C23_Witness ==
  /\ sbOut.op = "runScriptInSandbox"
  /\ sbOut.prov = "boxlite"
  /\ ~sbOut.threw
  /\ sbOut.inner.stdout = {"out"}
  /\ sbOut.inner.exitCode = "1"
  /\ sbOut.inner.duration = 7
  /\ sbOut.inner.provider = StaleAnnotation
  /\ sbOut.outer.provider.isolation = "vm"

\* C24: once initSandbox() has run, every provider type getBestProviderWithInfo
\* asks the registry for is a registered plugin: 'native' always, 'boxlite'
\* whenever the process is not in development mode.
C24_RequestedTypesRegistered ==
  initialized =>
    /\ plugins["native"] # "none"
    /\ ~isDevMode => plugins["boxlite"] # "none"

\* C25: a plugin registered through registerSandboxPlugin under a type stays
\* the plugin that type is mapped to, across every later initSandbox(),
\* getBestProviderWithInfo and execInSandbox, whether it was registered before
\* or after the first initSandbox().
C25_CustomRegistrationKept ==
  \A t \in ProviderTypes : lastCustom[t] # "none" => plugins[t] = lastCustom[t]

\* C26: the runtime probe is memoized even when BoxLite isAvailable() calls
\* overlap: two calls in flight together, before either has stored a result,
\* still start the probe (create and exercise the test box) at most once.
C26_ProbeOnceUnderOverlap ==
  overlapped => probeCount <= 1

\* C27: after an execInSandbox / runScriptInSandbox call has returned, every
\* VM box it started is stopped or still reachable through a component able
\* to stop it; no box is left running with no owner.
C27_NoOrphanedBox ==
  orphans = 0

\* C28: a plugin factory yields a fresh, uninitialized instance and never
\* starts init() (nor, through it, the availability probe), whatever config
\* it is called with, the BoxLite factory called with a config object included.
C28_FactoryStartsNothing ==
  lastFactory.prov # "none" => ~lastFactory.initStarted

\* C30: for every script path, BoxLiteProvider.runScript,
\* CodexProvider.runScript and BaseSandboxProvider.detectRuntime choose a
\* runtime of the same family (Python, Node, or a TypeScript runner).
C30_SameRuntimeFamily ==
  detected.path # <<>> =>
    /\ runtimeFamily(detected.boxlite) = runtimeFamily(detected.codex)
    /\ runtimeFamily(detected.boxlite) = runtimeFamily(detected.base)

\* C29: when runScript is given a non-empty package list, the packages are
\* installed before the script runs, for every provider and every runtime
\* (python as well as node and bun).
C29_PackagesInstalledFirst ==
  (xop.name = "runScript" /\ xop.pkgs /\ xop.pc \in {"script", "sync", "spawned"})
    => xop.installed

-----------------------------------------------------------------------------
\* BoxLiteProvider.runScript from the end of the script execution on: the
\* file sync and the return

\* the directory pieces of the paths below; "/w/" is workDir
DirPieces == {"/w/", "d/", "e/"}

WorkDirPath == <<"/w/">>

\* filePath of the script, under workDir
ScriptPath == <<"/w/", "job.py">>

\* the other files the VM may hold under workDir, as text pieces
VmPaths == {<<"/w/", "out.txt">>, <<"/w/", "my_", "job.py">>,
            <<"/w/", "d/", "res.txt">>, <<"/w/", "d/", "e/", "deep.txt">>}

\* what box.exec(<runtime> <script>) resolved to
ScriptResults == [stdout : {{}, {"out"}}, stderr : {{}, {"err"}},
                  exitCode : {"0", "1", "undefined"}]

\* String.prototype.startsWith and endsWith
startsWith(text, prefix) ==
  Len(prefix) <= Len(text) /\ SubSeq(text, 1, Len(prefix)) = prefix

endsWith(text, suffix) ==
  Len(suffix) <= Len(text)
    /\ SubSeq(text, Len(text) - Len(suffix) + 1, Len(text)) = suffix

\* index of the last directory piece of a path
RECURSIVE lastDir(_, _)
lastDir(path, i) ==
  IF i = 0 THEN 0 ELSE IF path[i] \in DirPieces THEN i ELSE lastDir(path, i - 1)

\* path.basename(filePath)
basename(path) == SubSeq(path, lastDir(path, Len(path)) + 1, Len(path))

\* depth of a file below workDir, as find counts it
fileDepth(path) == Cardinality({i \in DOMAIN path : path[i] \in DirPieces})

\* find "${workDir}" -maxdepth 2
FindMaxDepth == 2

\* stdout of: ls -la "${workDir}/" && find "${workDir}" -maxdepth 2 -type f,
\* as lines: the ls lines carry a mode column and a bare name, the find lines
\* are paths
listingLines(vm) ==
  {<<"-rw-r--r-- ">> \o basename(f) : f \in {g \in vm : fileDepth(g) = 1}}
    \cup {f \in vm : fileDepth(f) <= FindMaxDepth}

\* lines.filter(f => f && f.startsWith(workDir) && !f.endsWith(scriptBasename))
filesToSync(lines, workDir, scriptBasename) ==
  {f \in lines : startsWith(f, workDir) /\ ~endsWith(f, scriptBasename)}

\* the returned object: stdout || '', stderr || '', exitCode || 0
runScriptResult(res) ==
  [stdout |-> orElseStr(res.stdout, {}), stderr |-> orElseStr(res.stderr, {}),
   exitCode |-> orElse(res.exitCode, "0")]

\* the outer catch block: the listing threw, the sync is given up
afterListFailure(o) == [o EXCEPT !.pc = "return", !.listFailed = TRUE]

afterFileFailure_abort(o, f) ==
  [o EXCEPT !.todo = {}, !.failed = @ \cup {f}]

\* the inner catch block and the else branch of the read check: the file is
\* skipped, the loop goes on
afterFileFailure(o, f) ==
  [o EXCEPT !.todo = @ \ {f}, !.failed = @ \cup {f}]

\* runScript after await box.exec(<runtime> <script>) resolved with res, the
\* VM holding the script and the files vm under workDir
SyStart(vm, res) ==
  /\ sy.pc = "none"
  /\ sy' = [NoSy EXCEPT !.pc = "list", !.vm = vm \cup {ScriptPath},
                        !.script = ScriptPath, !.result = res]
  /\ syOut' = NoSyOut
  /\ UNCHANGED <<selVars, execVars, regObs, poolVars, sbVars, apiVars>>

\* after await box.exec(ls ... && find ...): it threw, it printed nothing
\* (ls failed), or it printed the listing
SyList(outcome) ==
  /\ sy.pc = "list"
  /\ sy' = IF outcome = "threw" THEN afterListFailure(sy)
           ELSE IF outcome = "empty" THEN [sy EXCEPT !.pc = "return"]
           ELSE LET files == filesToSync(listingLines(sy.vm), WorkDirPath,
                                         basename(sy.script))
                IN [sy EXCEPT !.pc = IF files = {} THEN "return" ELSE "files",
                              !.listed = files, !.todo = files]
  /\ UNCHANGED syOut
  /\ UNCHANGED <<selVars, execVars, regObs, poolVars, sbVars, apiVars>>

\* one turn of the loop over the files: base64 read, decode, mkdir, write
SyFile(f, outcome) ==
  /\ sy.pc = "files"
  /\ f \in sy.todo
  /\ LET o == IF outcome = "ok"
              THEN [sy EXCEPT !.todo = @ \ {f}, !.synced = @ \cup {f}]
              ELSE afterFileFailure(sy, f)
     IN sy' = [o EXCEPT !.pc = IF o.todo = {} THEN "return" ELSE "files"]
  /\ UNCHANGED syOut
  /\ UNCHANGED <<selVars, execVars, regObs, poolVars, sbVars, apiVars>>

\* runScript returns
SyReturn ==
  /\ sy.pc = "return"
  /\ syOut' = [returned |-> ~sy.threw, threw |-> sy.threw,
               value |-> IF sy.threw THEN NoScriptResult ELSE runScriptResult(sy.result),
               result |-> sy.result, vm |-> sy.vm, script |-> sy.script,
               listed |-> sy.listed, synced |-> sy.synced, failed |-> sy.failed,
               listFailed |-> sy.listFailed]
  /\ sy' = NoSy
  /\ UNCHANGED <<selVars, execVars, regObs, poolVars, sbVars, apiVars>>

NextSync ==
  \/ \E vm \in SUBSET VmPaths, res \in ScriptResults : SyStart(vm, res)
  \/ \E outcome \in {"ok", "empty", "threw"} : SyList(outcome)
  \/ \E f \in VmPaths, outcome \in {"ok", "readThrew", "readFailed", "emptyRead",
                                    "writeThrew"} : SyFile(f, outcome)
  \/ SyReturn

SpecSync == InitRegistry /\ [][NextSync]_vars

\* C31: after BoxLiteProvider.runScript, when no step of the sync failed,
\* every file under workDir in the VM other than the script itself has been
\* copied back to the host, files at any depth and files whose names merely
\* end with the script's basename included.
C31_AllFilesSynced ==
  (syOut.returned /\ ~syOut.listFailed /\ syOut.failed = {} /\ syOut.listed # {}) =>
    \A f \in syOut.vm : f # syOut.script => f \in syOut.synced

\* C32: the file sync is best-effort: whatever fails while listing, reading or
\* writing, runScript returns, with the stdout, stderr and exitCode of the
\* script execution alone, and every file of the sync list has been handled:
\* a failure on one file does not keep the others from being synced.
C32_SyncBestEffort ==
  (syOut.returned \/ syOut.threw) =>
    /\ ~syOut.threw
    /\ syOut.value = runScriptResult(syOut.result)
    /\ syOut.synced \cup syOut.failed = syOut.listed
    /\ syOut.synced \cap syOut.failed = {}

C32_Witness ==
  /\ syOut.returned
  /\ <<"/w/", "out.txt">> \in syOut.failed
  /\ <<"/w/", "d/", "res.txt">> \in syOut.synced
  /\ syOut.result.exitCode = "1"
  /\ syOut.value.exitCode = "1"
  /\ syOut.value.stdout = {"out"}

\* C33 as stated: for calls made one at a time on one BoxLiteProvider, at
\* most one box has been created and not yet stopped.
C33_AtMostOneLiveBox ==
  boxLog.live <= 1

\* C33: for calls made one at a time on one BoxLiteProvider, at most one box
\* has been created without stop() having been called on it since: before a
\* box for another image, or a fresh box for runScript, is created, stop()
\* has been called and awaited on the box held before.
C33_AtMostOnePendingBox ==
  boxLog.pending <= 1

C33_Witness ==
  /\ boxLog.created = 2
  /\ boxLog.pending = 1
  /\ boxLog.live = 1
  /\ xop.name = "exec"
  /\ xop.image = "python:3.11-slim"
  /\ box = "unready"

\* C34: a BoxLiteProvider runs a command only in a box whose readiness check
\* succeeded: after a box failed to start during one exec, a later exec for
\* the same image creates a box again instead of reusing the failed one.
C34_ReusedBoxIsReady ==
  (xop.name = "exec" /\ xop.prov = "boxlite" /\ xop.pc = "run") => box = "running"

\* C35: on every outcome of the BoxLite runtime probe, a test box that was
\* created has had stop() called on it by the time the probe resolves: when
\* the test command succeeds, when it exits non-zero, and when it throws.
C35_TestBoxStopped ==
  \A p \in Procs : av[p].pc \in {"ret", "threw"} => av[p].testBox # "created"

\* C36: once the caller has given mounts to setVolumes, an exec or runScript
\* on the BoxLiteProvider runs its command in a box constructed with exactly
\* those mounts, and this.volumes still holds the caller's mounts.
C36_VolumesTakeEffect ==
  (callerVolumes # "none" /\ xop.prov = "boxlite" /\ xop.pc \in {"run", "install", "script"})
    => /\ boxVolumes = callerVolumes
       /\ volumes = callerVolumes

\* C37: CodexProvider.exec and runScript spawn a process only when a codex
\* path has been resolved on the instance, and without one return exitCode 1
\* with a non-empty stderr; and on a host where codex is installed no call
\* ends with that missing-path result, whether or not isAvailable() or init()
\* was called before.
C37_CodexPathResolved ==
  /\ proc.state = "running" => codexPath # "undefined"
  /\ (xres.prov = "codex" /\ "noCodex" \in xres.causes)
       => (xres.exitCode = "1" /\ xres.stderr # {})
  /\ (xres.prov = "codex" /\ codexInstalled) => "noCodex" \notin xres.causes

\* C38: whatever the order of the child process events 'close' and 'error'
\* and of the timeout timer, a CodexProvider call that spawned is resolved by
\* the first of the two events and never rejects, a 'close' that follows an
\* 'error' changes nothing, the timer never fires once the result is
\* resolved, and stderr carries the timeout marker only if the timer fired
\* before the call was resolved.
C38_ResolvedOnceTimerQuiet ==
  /\ xres.prov = "codex" => ~xres.threw
  /\ proc.state # "running" => (proc.timer # "armed" /\ ~proc.lateFire)
  /\ proc.state \in {"errored", "closed"} => xop.prov # "codex"
  /\ (xres.prov = "codex" /\ "Execution timed out" \in xres.stderr)
       => "timeout" \in xres.causes

C38_Witness ==
  /\ proc.state = "errored"
  /\ xop.name = "none"
  /\ xres.prov = "codex" /\ xres.op = "exec"
  /\ "spawnError" \in xres.causes
  /\ "timeout" \in xres.causes
  /\ "Execution timed out" \in xres.stderr

\* C39: in CodexProvider.runScript, when installing the declared packages
\* fails, the script is never spawned (no process event contributes to the
\* result) and the call returns exitCode 1 with a stderr that reports the
\* installation failure.
C39_InstallFailureReturned ==
  (xres.prov = "codex" /\ "install" \in xres.causes) =>
    /\ xres.op = "runScript"
    /\ ~xres.threw
    /\ xres.exitCode = "1"
    /\ "Failed to install packages" \in xres.stderr
    /\ xres.causes = {"install"}
    /\ xop.name = "none" => proc.state # "running"

C39_Witness ==
  /\ xres.prov = "codex"
  /\ xres.causes = {"install"}
  /\ codexPath = "path"
  /\ xop.name = "none"
  /\ proc.state = "none"

-----------------------------------------------------------------------------
\* The introspection API: POST /providers/sandbox/switch and
\* POST /providers/settings/sync

\* body.type / body.sandboxProvider: a provider type, or missing
SwitchTypes == {"native", "codex", "boxlite"}

\* manager.switchSandboxProvider(type, config): the active provider is the
\* requested one when the call resolves and the former one when it rejects
managerSwitch(cur, t, ok) == IF ok THEN t ELSE cur

\* configLoader.updateFromSettings({ sandboxProvider, ... }): the settings
\* take the given keys, none when the call throws
loaderUpdate(cur, t, ok) == IF ok /\ t # "absent" THEN t ELSE cur

\* POST /providers/sandbox/switch: 400 without a type; otherwise the manager
\* switches, then the config loader is updated; any throw answers 500
ApiSwitch(t, switchOk, updateOk) ==
  /\ t = "absent" => (switchOk /\ updateOk)
  /\ ~switchOk => updateOk
  /\ LET mgr == IF t = "absent" THEN mgrSandbox ELSE managerSwitch(mgrSandbox, t, switchOk)
         cfg == IF t = "absent" \/ ~switchOk THEN cfgSandbox
                ELSE loaderUpdate(cfgSandbox, t, updateOk)
     IN /\ mgrSandbox' = mgr
        /\ cfgSandbox' = cfg
        /\ lastReq' = [route |-> "switch", type |-> t,
                       status |-> IF t = "absent" THEN 400
                                  ELSE IF switchOk /\ updateOk THEN 200 ELSE 500,
                       preMgr |-> mgrSandbox, preCfg |-> cfgSandbox]
  /\ UNCHANGED <<selVars, execVars, regObs, poolVars, sbVars, auxVars>>

\* POST /providers/settings/sync: the sandbox provider is switched when
\* given, then the agent provider when given, then the config loader is
\* updated; any throw answers 500
ApiSync(t, switchOk, agentOk, updateOk) ==
  /\ t = "absent" => switchOk
  /\ ~switchOk => (agentOk /\ updateOk)
  /\ ~agentOk => updateOk
  /\ LET mgr == IF t = "absent" THEN mgrSandbox ELSE managerSwitch(mgrSandbox, t, switchOk)
         cfg == IF switchOk /\ agentOk THEN loaderUpdate(cfgSandbox, t, updateOk)
                ELSE cfgSandbox
     IN /\ mgrSandbox' = mgr
        /\ cfgSandbox' = cfg
        /\ lastReq' = [route |-> "sync", type |-> t,
                       status |-> IF switchOk /\ agentOk /\ updateOk THEN 200 ELSE 500,
                       preMgr |-> mgrSandbox, preCfg |-> cfgSandbox]
  /\ UNCHANGED <<selVars, execVars, regObs, poolVars, sbVars, auxVars>>

NextApi ==
  \/ \E t \in SwitchTypes \cup {"absent"}, switchOk \in BOOLEAN, updateOk \in BOOLEAN :
        ApiSwitch(t, switchOk, updateOk)
  \/ \E t \in SwitchTypes \cup {"absent"}, switchOk \in BOOLEAN, agentOk \in BOOLEAN,
        updateOk \in BOOLEAN : ApiSync(t, switchOk, agentOk, updateOk)

SpecApi == InitRegistry /\ [][NextApi]_vars

\* C40: provider switching through the API is all-or-nothing: after a
\* request that ended in an error the manager's active sandbox provider and
\* the config loader's setting are what they were before the request, and
\* after a successful request naming a type both are that type.
C40_SwitchAllOrNothing ==
  /\ lastReq.status = 500 =>
       (mgrSandbox = lastReq.preMgr /\ cfgSandbox = lastReq.preCfg)
  /\ (lastReq.status = 200 /\ lastReq.type # "absent") =>
       (mgrSandbox = lastReq.type /\ cfgSandbox = lastReq.type)
====
